---- MODULE Spec2Model ----
(***************************************************************************)
(* Kaliun Connect API: device registration, claim binding, credential      *)
(* bootstrap, confirm and refresh (src/src/index.js over the query layer   *)
(* of db.js).  Every handler is split at its database round trips: one     *)
(* action per query, so that concurrent requests interleave exactly where  *)
(* the code awaits the store.                                              *)
(***************************************************************************)
EXTENDS Integers, Sequences, FiniteSets, TLC

VARIABLES
  installations,    \* table public.installations: a set of rows
  now,              \* wall clock, in seconds
  requests,         \* number of requests received so far
  issued,           \* device tokens that some response has handed to a caller
  pendingRegister,  \* register requests between their SELECT and their INSERT
  pendingClaim,     \* claim requests between their SELECT and their UPDATE
  pendingBootstrap, \* config requests between signing and their UPDATE
  pendingHealth,    \* health requests between their SELECT and their last query
  health_reports,   \* table public.health_reports: install_id -> number of rows
  pendingLogs,      \* logs requests between their SELECT and their INSERT
  logs,             \* table public.logs: install_id -> number of rows
  device_codes,     \* table public.device_codes: a set of rows
  deviceHistory,    \* device_code -> what has happened to its request so far
  isLocalDev,       \* the session strategy of this deployment (never changes)
  users,            \* table public.users: a set of rows
  sessions,         \* table public.sessions: a set of rows
  idp,              \* the sessions the identity provider (Supabase Auth) knows
  tokensUsed,       \* session and provider tokens generated so far (none comes twice)
  loggedOut,        \* the session tokens a logout has been answered for
  registerReturned, \* install_id -> claim codes that register has returned
  claimSuccess,     \* claim_code -> users that were told "Device claimed!"
  lastResp          \* the response sent by the last step (op "none" if none)

vars == <<installations, now, requests, issued, pendingRegister, pendingClaim,
          pendingBootstrap, pendingHealth, health_reports, pendingLogs, logs,
          device_codes, deviceHistory, isLocalDev, users, sessions, idp, tokensUsed, loggedOut,
          registerReturned, claimSuccess, lastResp>>

----------------------------------------------------------------------------
(* Bounds of the model *)

InstallIds == {"dev-1", "dev-2"}
ClaimCodes == {"ABC234", "XYZ789"}
Users      == {"U1", "U2"}
MaxInFlight == 2
MaxRequests == 4
MaxLaterRequests == 3
DeviceCodes == {"dc-1", "dc-2"}
UserCodes   == {"WXYZ-ABCD", "EFGH-JKLM"}

(* Policy constants of the program *)

ACCESS_TOKEN_LIFETIME  == 7 * 24 * 60 * 60
REFRESH_TOKEN_LIFETIME == 90 * 24 * 60 * 60
JWT_SECRET == "kaliun-dev-secret"
DEVICE_CODE_LIFETIME == 900
OAUTH_ACCESS_TOKEN_LIFETIME  == 60 * 60
OAUTH_REFRESH_TOKEN_LIFETIME == 30 * 24 * 60 * 60

(* The instants the clock is looked at *)
Times == {0, ACCESS_TOKEN_LIFETIME, REFRESH_TOKEN_LIFETIME, REFRESH_TOKEN_LIFETIME + 1}

(* The instants the clock is looked at while a device code is outstanding *)
DeviceTimes == {0, DEVICE_CODE_LIFETIME, DEVICE_CODE_LIFETIME + 1}

(* SQL NULL / JavaScript undefined, and a present value *)
NULL == <<>>
Some(v) == <<v>>

----------------------------------------------------------------------------
(* Token issuer *)

generateToken(payload, expiresIn, t) ==
  [installation_id |-> payload.installation_id, type |-> payload.type,
   iat |-> t, exp |-> t + expiresIn, key |-> JWT_SECRET]

(* Mutant: a token is still taken at the second of its exp *)
verifyTokenAtExp(token, t) ==
  IF token.key = JWT_SECRET /\ t <= token.exp
    THEN Some([installation_id |-> token.installation_id, type |-> token.type])
    ELSE NULL

verifyToken(token, t) ==
  IF token.key = JWT_SECRET /\ t < token.exp
    THEN Some([installation_id |-> token.installation_id, type |-> token.type])
    ELSE NULL

addSeconds(date, seconds) == date + seconds

(* A token signed with another key: what a caller can make up by itself *)
ForgedTokens ==
  {[installation_id |-> id, type |-> "access", iat |-> 0,
    exp |-> 2 * REFRESH_TOKEN_LIFETIME, key |-> "not-the-secret"] : id \in {"dev-1"}}

(* The Authorization headers a caller can send *)
AuthHeaders ==
  {NULL} \cup {<<"Bearer", tk>> : tk \in issued \cup ForgedTokens}
         \cup {<<"Basic", tk>> : tk \in ForgedTokens}

startsWithBearer(authHeader) == authHeader # NULL /\ authHeader[1] = "Bearer"

----------------------------------------------------------------------------
(* Query layer *)

findInstallationByInstallId(installId) ==
  {r \in installations : r.install_id = installId}

findInstallationByClaimCode(claimCode) ==
  {r \in installations : r.claim_code = claimCode}

NewRow(installId, claimCode) ==
  [install_id |-> installId, claim_code |-> claimCode,
   claimed_by |-> NULL, claimed_at |-> NULL,
   customer_name |-> NULL, customer_email |-> NULL, customer_address |-> NULL,
   access_token |-> NULL, refresh_token |-> NULL,
   access_expires_at |-> NULL, refresh_expires_at |-> NULL,
   config_confirmed |-> FALSE, last_health_at |-> NULL]

(* Mutant: only claim_code is UNIQUE *)
UniqueViolationOnClaimCode(tbl, installId, claimCode) ==
  \E r \in tbl : r.claim_code = claimCode

(* install_id and claim_code are both UNIQUE NOT NULL *)
UniqueViolation(tbl, installId, claimCode) ==
  \E r \in tbl : r.install_id = installId \/ r.claim_code = claimCode

createInstallation(tbl, installId, claimCode) ==
  tbl \cup {NewRow(installId, claimCode)}

updateInstallation(tbl, installId, updates) ==
  IF DOMAIN updates = {} THEN tbl
  ELSE {IF r.install_id = installId
          THEN [f \in DOMAIN r |-> IF f \in DOMAIN updates THEN updates[f] ELSE r[f]]
          ELSE r : r \in tbl}

(* Mutant: the claim uses the claim code up *)
claimInstallationConsumingCode(tbl, claimCode, userId, customerName, customerEmail, customerAddress, t) ==
  {IF r.claim_code = claimCode /\ r.claimed_at = NULL
     THEN [r EXCEPT !.claimed_by = Some(userId), !.claimed_at = Some(t),
                    !.claim_code = "",
                    !.customer_name = customerName,
                    !.customer_email = customerEmail,
                    !.customer_address =
                       IF customerAddress = NULL THEN Some("") ELSE customerAddress]
     ELSE r : r \in tbl}

(* Mutant: the UPDATE without its "AND claimed_at IS NULL" *)
claimInstallationUnconditional(tbl, claimCode, userId, customerName, customerEmail, customerAddress, t) ==
  {IF r.claim_code = claimCode
     THEN [r EXCEPT !.claimed_by = Some(userId), !.claimed_at = Some(t),
                    !.customer_name = customerName,
                    !.customer_email = customerEmail,
                    !.customer_address =
                       IF customerAddress = NULL THEN Some("") ELSE customerAddress]
     ELSE r : r \in tbl}

claimInstallation(tbl, claimCode, userId, customerName, customerEmail, customerAddress, t) ==
  {IF r.claim_code = claimCode /\ r.claimed_at = NULL
     THEN [r EXCEPT !.claimed_by = Some(userId), !.claimed_at = Some(t),
                    !.customer_name = customerName,
                    !.customer_email = customerEmail,
                    !.customer_address =
                       IF customerAddress = NULL THEN Some("") ELSE customerAddress]
     ELSE r : r \in tbl}

----------------------------------------------------------------------------
(* Responses *)

NoResp ==
  [op |-> "none", key |-> "", status |-> "", header |-> NULL, user |-> "",
   claim_code |-> "", auth |-> NULL, customer |-> NULL, token |-> NULL,
   user_code |-> "", effects |-> <<>>, ctx |-> NULL, cookies |-> NULL,
   refresh |-> NULL]

Resp(op, key, status) == [NoResp EXCEPT !.op = op, !.key = key, !.status = status]

(* The accounts of the two users who claim installations *)
Accounts ==
  {[id |-> "U1", email |-> "ann@example.com", name |-> "Ann"],
   [id |-> "U2", email |-> "bob@example.com", name |-> "Bob"]}

(* Nothing has happened yet to the request of a device code *)
NoHistory == [requested |-> FALSE, authorized_by |-> NULL, pairs |-> 0, purged |-> FALSE]

InFlight ==
  Cardinality(pendingRegister) + Cardinality(pendingClaim)
    + Cardinality(pendingBootstrap) + Cardinality(pendingHealth)
    + Cardinality(pendingLogs)

(* A request arrives; a later step of a request that is already in flight *)
Arrive == requests < MaxRequests /\ requests' = requests + 1
Continue == UNCHANGED requests

Init ==
  /\ installations = {}
  /\ now = 0
  /\ requests = 0
  /\ issued = {}
  /\ pendingRegister = {}
  /\ pendingClaim = {}
  /\ pendingBootstrap = {}
  /\ pendingHealth = {}
  /\ health_reports = [id \in InstallIds |-> 0]
  /\ pendingLogs = {}
  /\ logs = [id \in InstallIds |-> 0]
  /\ device_codes = {}
  /\ deviceHistory = [dc \in DeviceCodes |-> NoHistory]
  /\ isLocalDev = FALSE
  /\ users = Accounts
  /\ sessions = {}
  /\ idp = {}
  /\ tokensUsed = {}
  /\ loggedOut = {}
  /\ registerReturned = [id \in InstallIds |-> {}]
  /\ claimSuccess = [c \in ClaimCodes |-> {}]
  /\ lastResp = NoResp

----------------------------------------------------------------------------
(* POST /api/v1/installations/register *)

(* install_id missing from the body *)
RegisterInvalid ==
  /\ Arrive
  /\ lastResp' = Resp("register", "", "400")
  /\ UNCHANGED <<installations, now, issued, pendingRegister, pendingClaim,
                 pendingBootstrap, registerReturned, claimSuccess,
                 pendingHealth, health_reports,
                 pendingLogs, logs,
                 device_codes, deviceHistory,
                 isLocalDev, users, sessions, idp, tokensUsed, loggedOut>>

(* The answer for a row that exists: its stored claim code.  The mutant
   answers with a code generated anew. *)
RegeneratedClaimCode(existing) ==
  CHOOSE c \in ClaimCodes : \A r \in existing : c # r.claim_code

ExistingClaimCode(existing) == (CHOOSE r \in existing : TRUE).claim_code

(* SELECT by install_id; an existing row answers at once, otherwise a claim
   code is generated and the INSERT is sent *)
RegisterFind(install_id) ==
  LET existing == findInstallationByInstallId(install_id) IN
  /\ Arrive
  /\ IF existing # {}
    THEN /\ lastResp' = [Resp("register", install_id, "200") EXCEPT
                           !.claim_code = ExistingClaimCode(existing)]
         /\ registerReturned' = [registerReturned EXCEPT
                                   ![install_id] = @ \cup {ExistingClaimCode(existing)}]
         /\ UNCHANGED <<installations, now, issued, pendingRegister, pendingClaim,
                        pendingBootstrap, claimSuccess,
                 pendingHealth, health_reports,
                 pendingLogs, logs,
                 device_codes, deviceHistory,
                 isLocalDev, users, sessions, idp, tokensUsed, loggedOut>>
    ELSE /\ InFlight < MaxInFlight
         /\ \E claimCode \in ClaimCodes :
              pendingRegister' = pendingRegister \cup
                 {[install_id |-> install_id, claimCode |-> claimCode]}
         /\ lastResp' = NoResp
         /\ UNCHANGED <<installations, now, issued, pendingClaim,
                        pendingBootstrap, registerReturned, claimSuccess,
                 pendingHealth, health_reports,
                 pendingLogs, logs,
                 device_codes, deviceHistory,
                 isLocalDev, users, sessions, idp, tokensUsed, loggedOut>>

(* INSERT; a uniqueness violation throws and is answered 500 *)
RegisterCreate(p) ==
  /\ p \in pendingRegister
  /\ Continue
  /\ pendingRegister' = pendingRegister \ {p}
  /\ IF UniqueViolation(installations, p.install_id, p.claimCode)
       THEN /\ lastResp' = Resp("register", p.install_id, "500")
            /\ UNCHANGED <<installations, registerReturned,
                 pendingHealth, health_reports,
                 pendingLogs, logs,
                 device_codes, deviceHistory,
                 isLocalDev, users, sessions, idp, tokensUsed, loggedOut>>
       ELSE /\ installations' = createInstallation(installations, p.install_id, p.claimCode)
            /\ lastResp' = [Resp("register", p.install_id, "201") EXCEPT !.claim_code = p.claimCode]
            /\ registerReturned' = [registerReturned EXCEPT ![p.install_id] = @ \cup {p.claimCode}]
  /\ UNCHANGED <<now, issued, pendingClaim, pendingBootstrap, claimSuccess,
                 pendingHealth, health_reports,
                 pendingLogs, logs,
                 device_codes, deviceHistory,
                 isLocalDev, users, sessions, idp, tokensUsed, loggedOut>>

----------------------------------------------------------------------------
(* POST /claim/:code, behind requireAuth: userId is the authenticated user *)

(* The form fields of the request body, one form per user; a field left
   out of the form is undefined *)
CustomerForm(userId) ==
  IF userId = "U1"
    THEN [customer_name |-> Some("Ann"), customer_email |-> Some("ann@example.com"),
          customer_address |-> Some("1 Main St")]
    ELSE [customer_name |-> Some("Bob"), customer_email |-> Some("bob@example.com"),
          customer_address |-> NULL]

(* Mutant: the handler without its "already claimed" check *)
ClaimOutcomeUnchecked(installation) ==
  IF installation = {} THEN "Invalid code" ELSE "proceed"

(* What the handler decides from the row it has read *)
ClaimOutcome(installation) ==
  IF installation = {} THEN "Invalid code"
  ELSE IF (CHOOSE r \in installation : TRUE).claimed_at # NULL THEN "Already claimed"
  ELSE "proceed"

ClaimFind(userId, code, form) ==
  LET installation == findInstallationByClaimCode(code)
      outcome == ClaimOutcome(installation) IN
  /\ Arrive
  /\ IF outcome # "proceed"
    THEN /\ lastResp' = [Resp("claim", code, outcome) EXCEPT !.user = userId]
         /\ UNCHANGED <<installations, now, issued, pendingRegister, pendingClaim,
                        pendingBootstrap, registerReturned, claimSuccess,
                 pendingHealth, health_reports,
                 pendingLogs, logs,
                 device_codes, deviceHistory,
                 isLocalDev, users, sessions, idp, tokensUsed, loggedOut>>
    ELSE /\ InFlight < MaxInFlight
         /\ pendingClaim' = pendingClaim \cup {[code |-> code, userId |-> userId, form |-> form]}
         /\ lastResp' = NoResp
         /\ UNCHANGED <<installations, now, issued, pendingRegister,
                        pendingBootstrap, registerReturned, claimSuccess,
                 pendingHealth, health_reports,
                 pendingLogs, logs,
                 device_codes, deviceHistory,
                 isLocalDev, users, sessions, idp, tokensUsed, loggedOut>>

(* The conditional UPDATE; its result is not looked at, the redirect
   always says "Device claimed!" *)
ClaimUpdate(p) ==
  /\ p \in pendingClaim
  /\ Continue
  /\ pendingClaim' = pendingClaim \ {p}
  /\ installations' = claimInstallation(installations, p.code, p.userId,
                         p.form.customer_name, p.form.customer_email,
                         p.form.customer_address, now)
  /\ lastResp' = [Resp("claim", p.code, "Device claimed!") EXCEPT !.user = p.userId]
  /\ claimSuccess' = [claimSuccess EXCEPT ![p.code] = @ \cup {p.userId}]
  /\ UNCHANGED <<now, issued, pendingRegister, pendingBootstrap, registerReturned,
                 pendingHealth, health_reports,
                 pendingLogs, logs,
                 device_codes, deviceHistory,
                 isLocalDev, users, sessions, idp, tokensUsed, loggedOut>>

----------------------------------------------------------------------------
(* GET /api/v1/installations/:id/config *)

OrEmpty(v) == IF v = NULL THEN "" ELSE v[1]

CustomerBlock(row) ==
  [name |-> OrEmpty(row.customer_name), email |-> OrEmpty(row.customer_email),
   address |-> OrEmpty(row.customer_address)]

(* Mutant: the claimed_at check left out *)
ConfigBranchClaimUnchecked(installation, authHeader, id, t) ==
  IF installation = {} THEN "not_found"
  ELSE LET row == CHOOSE r \in installation : TRUE IN
       IF row.config_confirmed /\ authHeader = NULL THEN "unauthorized"
       ELSE IF startsWithBearer(authHeader)
         THEN LET payload == verifyToken(authHeader[2], t) IN
              IF payload = NULL \/ payload[1].installation_id # id
                THEN "TOKEN_EXPIRED"
                ELSE "resync"
       ELSE "bootstrap"

(* Mutant: the resync branch does not return and runs on into the bootstrap *)
ConfigBranchResyncFallsThrough(installation, authHeader, id, t) ==
  IF installation = {} THEN "not_found"
  ELSE LET row == CHOOSE r \in installation : TRUE IN
       IF row.claimed_at = NULL THEN "not_claimed"
       ELSE IF row.config_confirmed /\ authHeader = NULL THEN "unauthorized"
       ELSE IF startsWithBearer(authHeader)
         THEN LET payload == verifyToken(authHeader[2], t) IN
              IF payload = NULL \/ payload[1].installation_id # id
                THEN "TOKEN_EXPIRED"
                ELSE "bootstrap"
       ELSE "bootstrap"

(* Mutant: a bearer token is taken whatever installation it names *)
ConfigBranchAnyInstallation(installation, authHeader, id, t) ==
  IF installation = {} THEN "not_found"
  ELSE LET row == CHOOSE r \in installation : TRUE IN
       IF row.claimed_at = NULL THEN "not_claimed"
       ELSE IF row.config_confirmed /\ authHeader = NULL THEN "unauthorized"
       ELSE IF startsWithBearer(authHeader)
         THEN LET payload == verifyToken(authHeader[2], t) IN
              IF payload = NULL THEN "TOKEN_EXPIRED" ELSE "resync"
       ELSE "bootstrap"

(* The branch the handler takes on the row it has read *)
ConfigBranch(installation, authHeader, id, t) ==
  IF installation = {} THEN "not_found"
  ELSE LET row == CHOOSE r \in installation : TRUE IN
       IF row.claimed_at = NULL THEN "not_claimed"
       ELSE IF row.config_confirmed /\ authHeader = NULL THEN "unauthorized"
       ELSE IF startsWithBearer(authHeader)
         THEN LET payload == verifyToken(authHeader[2], t) IN
              IF payload = NULL \/ payload[1].installation_id # id
                THEN "TOKEN_EXPIRED"
                ELSE "resync"
       ELSE "bootstrap"

(* Mutant: the refresh token is returned but not stored *)
BootstrapUpdatesAccessOnly(accessToken, refreshToken, t) ==
  [access_token |-> Some(accessToken),
   access_expires_at |-> Some(addSeconds(t, ACCESS_TOKEN_LIFETIME))]

(* Mutant: a bootstrap asks for a new confirmation *)
BootstrapUpdatesUnconfirm(accessToken, refreshToken, t) ==
  [access_token |-> Some(accessToken),
   refresh_token |-> Some(refreshToken),
   access_expires_at |-> Some(addSeconds(t, ACCESS_TOKEN_LIFETIME)),
   refresh_expires_at |-> Some(addSeconds(t, REFRESH_TOKEN_LIFETIME)),
   config_confirmed |-> FALSE]

BootstrapUpdates(accessToken, refreshToken, t) ==
  [access_token |-> Some(accessToken),
   refresh_token |-> Some(refreshToken),
   access_expires_at |-> Some(addSeconds(t, ACCESS_TOKEN_LIFETIME)),
   refresh_expires_at |-> Some(addSeconds(t, REFRESH_TOKEN_LIFETIME))]

AuthBlock(accessToken, refreshToken, t) ==
  [access_token |-> Some(accessToken),
   refresh_token |-> Some(refreshToken),
   access_expires_at |-> Some(addSeconds(t, ACCESS_TOKEN_LIFETIME)),
   refresh_expires_at |-> Some(addSeconds(t, REFRESH_TOKEN_LIFETIME))]

(* SELECT by install_id and everything up to the next query: the rejections
   and the resync answer at once, the bootstrap signs its pair and sends the
   UPDATE *)
ConfigFind(id, authHeader) ==
  LET installation == findInstallationByInstallId(id)
      branch == ConfigBranch(installation, authHeader, id, now) IN
  /\ Arrive
  /\ IF branch = "bootstrap"
    THEN LET row == CHOOSE r \in installation : TRUE IN
         /\ InFlight < MaxInFlight
         /\ pendingBootstrap' = pendingBootstrap \cup
              {[id |-> id, header |-> authHeader, now |-> now,
                accessToken |-> generateToken([installation_id |-> id, type |-> "access"],
                                              ACCESS_TOKEN_LIFETIME, now),
                refreshToken |-> generateToken([installation_id |-> id, type |-> "refresh"],
                                               REFRESH_TOKEN_LIFETIME, now),
                customer |-> CustomerBlock(row)]}
         /\ lastResp' = NoResp
         /\ UNCHANGED <<installations, now, issued, pendingRegister, pendingClaim,
                        registerReturned, claimSuccess,
                 pendingHealth, health_reports,
                 pendingLogs, logs,
                 device_codes, deviceHistory,
                 isLocalDev, users, sessions, idp, tokensUsed, loggedOut>>
    ELSE /\ lastResp' =
              [Resp("config", id, branch) EXCEPT
                 !.header = authHeader,
                 !.customer = IF branch = "resync"
                                THEN Some(CustomerBlock(CHOOSE r \in installation : TRUE))
                                ELSE NULL]
         /\ UNCHANGED <<installations, now, issued, pendingRegister, pendingClaim,
                        pendingBootstrap, registerReturned, claimSuccess,
                 pendingHealth, health_reports,
                 pendingLogs, logs,
                 device_codes, deviceHistory,
                 isLocalDev, users, sessions, idp, tokensUsed, loggedOut>>

(* The UPDATE of the bootstrap and its answer *)
ConfigStore(p) ==
  /\ p \in pendingBootstrap
  /\ Continue
  /\ pendingBootstrap' = pendingBootstrap \ {p}
  /\ installations' = updateInstallation(installations, p.id,
                         BootstrapUpdates(p.accessToken, p.refreshToken, p.now))
  /\ lastResp' = [Resp("config", p.id, "bootstrap") EXCEPT
                    !.header = p.header,
                    !.auth = Some(AuthBlock(p.accessToken, p.refreshToken, p.now)),
                    !.customer = Some(p.customer)]
  /\ issued' = issued \cup {p.accessToken, p.refreshToken}
  /\ UNCHANGED <<now, pendingRegister, pendingClaim, registerReturned, claimSuccess,
                 pendingHealth, health_reports,
                 pendingLogs, logs,
                 device_codes, deviceHistory,
                 isLocalDev, users, sessions, idp, tokensUsed, loggedOut>>

(* Mutant: the catch block answers with the pair that was signed *)
BootstrapFailureLeaking(p) ==
  [Resp("config", p.id, "internal_error") EXCEPT
     !.header = p.header,
     !.auth = Some(AuthBlock(p.accessToken, p.refreshToken, p.now))]

(* The answer of the catch block *)
BootstrapFailure(p) ==
  [Resp("config", p.id, "internal_error") EXCEPT !.header = p.header]

(* The UPDATE of the bootstrap throws (the store is unavailable): nothing is
   written and the catch block answers 500 *)
ConfigStoreFails(p) ==
  /\ p \in pendingBootstrap
  /\ Continue
  /\ pendingBootstrap' = pendingBootstrap \ {p}
  /\ lastResp' = BootstrapFailure(p)
  /\ UNCHANGED <<installations, now, issued, pendingRegister, pendingClaim,
                 registerReturned, claimSuccess, pendingHealth, health_reports,
                 pendingLogs, logs, device_codes, deviceHistory,
                 isLocalDev, users, sessions, idp, tokensUsed, loggedOut>>

----------------------------------------------------------------------------
(* DELETE /api/v1/installations/:id/config *)

(* Mutant: the confirm writes the whole credential block back, empty *)
ConfirmUpdatesClearingAccess ==
  [config_confirmed |-> TRUE, access_token |-> NULL, access_expires_at |-> NULL]

ConfirmUpdates == [config_confirmed |-> TRUE]

ConfirmConfig(id) ==
  /\ Arrive
  /\ installations' = updateInstallation(installations, id, ConfirmUpdates)
  /\ lastResp' = Resp("confirm", id, "204")
  /\ UNCHANGED <<now, issued, pendingRegister, pendingClaim, pendingBootstrap,
                 registerReturned, claimSuccess,
                 pendingHealth, health_reports,
                 pendingLogs, logs,
                 device_codes, deviceHistory,
                 isLocalDev, users, sessions, idp, tokensUsed, loggedOut>>

----------------------------------------------------------------------------
(* POST /api/v1/installations/token/refresh *)

(* Mutant: the expiry stored with the new access token is 90 days away *)
RefreshUpdatesLongLived(newAccessToken, t) ==
  [access_token |-> Some(newAccessToken),
   access_expires_at |-> Some(addSeconds(t, REFRESH_TOKEN_LIFETIME))]

(* Mutant: the refresh rotates the stored refresh token as well *)
RefreshUpdatesRotating(newAccessToken, t) ==
  [access_token |-> Some(newAccessToken),
   access_expires_at |-> Some(addSeconds(t, ACCESS_TOKEN_LIFETIME)),
   refresh_token |-> Some(generateToken([installation_id |-> newAccessToken.installation_id,
                                         type |-> "refresh"], REFRESH_TOKEN_LIFETIME, t)),
   refresh_expires_at |-> Some(addSeconds(t, REFRESH_TOKEN_LIFETIME))]

RefreshUpdates(newAccessToken, t) ==
  [access_token |-> Some(newAccessToken),
   access_expires_at |-> Some(addSeconds(t, ACCESS_TOKEN_LIFETIME))]

(* Mutant: the type of the token is not looked at *)
RefreshOutcomeAnyType(refresh_token, t) ==
  IF refresh_token = NULL THEN "400"
  ELSE LET payload == verifyToken(refresh_token[1], t) IN
       IF payload = NULL THEN "invalid_grant" ELSE "200"

RefreshOutcome(refresh_token, t) ==
  IF refresh_token = NULL THEN "400"
  ELSE LET payload == verifyToken(refresh_token[1], t) IN
       IF payload = NULL \/ payload[1].type # "refresh" THEN "invalid_grant" ELSE "200"

RefreshAccessToken(refresh_token) ==
  LET outcome == RefreshOutcome(refresh_token, now) IN
  /\ Arrive
  /\ IF outcome # "200"
    THEN /\ lastResp' = [Resp("refresh", "", outcome) EXCEPT !.token = refresh_token]
         /\ UNCHANGED <<installations, now, issued, pendingRegister, pendingClaim,
                        pendingBootstrap, registerReturned, claimSuccess,
                 pendingHealth, health_reports,
                 pendingLogs, logs,
                 device_codes, deviceHistory,
                 isLocalDev, users, sessions, idp, tokensUsed, loggedOut>>
    ELSE LET payload == verifyToken(refresh_token[1], now)[1]
             newAccessToken == generateToken([installation_id |-> payload.installation_id,
                                              type |-> "access"], ACCESS_TOKEN_LIFETIME, now) IN
         /\ installations' = updateInstallation(installations, payload.installation_id,
                                RefreshUpdates(newAccessToken, now))
         /\ lastResp' = [Resp("refresh", payload.installation_id, "200") EXCEPT
                           !.token = refresh_token,
                           !.auth = Some([access_token |-> Some(newAccessToken),
                                          refresh_token |-> NULL,
                                          access_expires_at |->
                                             Some(addSeconds(now, ACCESS_TOKEN_LIFETIME)),
                                          refresh_expires_at |-> NULL])]
         /\ issued' = issued \cup {newAccessToken}
         /\ UNCHANGED <<now, pendingRegister, pendingClaim, pendingBootstrap,
                        registerReturned, claimSuccess,
                 pendingHealth, health_reports,
                 pendingLogs, logs,
                 device_codes, deviceHistory,
                 isLocalDev, users, sessions, idp, tokensUsed, loggedOut>>

----------------------------------------------------------------------------
(* POST /api/v1/installations/:id/health, behind requireBearerAuth *)

requireBearerAuth(authHeader, t) ==
  IF ~startsWithBearer(authHeader) THEN "unauthorized"
  ELSE IF verifyToken(authHeader[2], t) = NULL THEN "TOKEN_EXPIRED"
  ELSE "next"

(* The middleware, the path check and the SELECT *)
HealthOutcome(authHeader, id, t) ==
  IF requireBearerAuth(authHeader, t) # "next" THEN requireBearerAuth(authHeader, t)
  ELSE IF verifyToken(authHeader[2], t)[1].installation_id # id THEN "forbidden"
  ELSE IF findInstallationByInstallId(id) = {} THEN "not_found"
  ELSE "proceed"

(* Mutant: the UPDATE stores no timestamp *)
HealthUpdatesWithoutLastSeen(t) == [last_health_at |-> NULL]

HealthUpdates(t) == [last_health_at |-> Some(t)]

HealthFind(id, authHeader) ==
  LET outcome == HealthOutcome(authHeader, id, now) IN
  /\ Arrive
  /\ IF outcome # "proceed"
       THEN /\ lastResp' = [Resp("health", id, outcome) EXCEPT !.header = authHeader]
            /\ UNCHANGED pendingHealth
       ELSE /\ InFlight < MaxInFlight
            /\ \A p \in pendingHealth : p.id # id \/ p.header # authHeader
            /\ pendingHealth' = pendingHealth \cup
                  {[id |-> id, header |-> authHeader, stage |-> "insert"]}
            /\ lastResp' = NoResp
  /\ UNCHANGED <<installations, now, issued, pendingRegister, pendingClaim,
                 pendingBootstrap, health_reports, registerReturned, claimSuccess,
                 pendingLogs, logs,
                 device_codes, deviceHistory,
                 isLocalDev, users, sessions, idp, tokensUsed, loggedOut>>

(* INSERT INTO health_reports *)
HealthInsert(p) ==
  /\ p \in pendingHealth /\ p.stage = "insert"
  /\ Continue
  /\ health_reports' = [health_reports EXCEPT ![p.id] = @ + 1]
  /\ pendingHealth' = (pendingHealth \ {p}) \cup {[p EXCEPT !.stage = "update"]}
  /\ lastResp' = NoResp
  /\ UNCHANGED <<installations, now, issued, pendingRegister, pendingClaim,
                 pendingBootstrap, registerReturned, claimSuccess,
                 pendingLogs, logs,
                 device_codes, deviceHistory,
                 isLocalDev, users, sessions, idp, tokensUsed, loggedOut>>

(* The UPDATE of last_health_at and the 204 *)
HealthUpdate(p) ==
  /\ p \in pendingHealth /\ p.stage = "update"
  /\ Continue
  /\ installations' = updateInstallation(installations, p.id, HealthUpdates(now))
  /\ pendingHealth' = pendingHealth \ {p}
  /\ lastResp' = [Resp("health", p.id, "204") EXCEPT !.header = p.header]
  /\ UNCHANGED <<now, issued, pendingRegister, pendingClaim,
                 pendingBootstrap, health_reports, registerReturned, claimSuccess,
                 pendingLogs, logs,
                 device_codes, deviceHistory,
                 isLocalDev, users, sessions, idp, tokensUsed, loggedOut>>

----------------------------------------------------------------------------
(* POST /api/v1/installations/:id/logs, behind requireBearerAuth *)

(* The "logs" field of the request bodies: left out, or an array of one
   message *)
LogBodies == {NULL, Some(<<"boot ok">>)}

(* The middleware, the path check, the body check and the SELECT *)
LogsOutcome(authHeader, id, body, t) ==
  IF requireBearerAuth(authHeader, t) # "next" THEN requireBearerAuth(authHeader, t)
  ELSE IF verifyToken(authHeader[2], t)[1].installation_id # id THEN "forbidden"
  ELSE IF body = NULL THEN "logs array required"
  ELSE IF findInstallationByInstallId(id) = {} THEN "not_found"
  ELSE "proceed"

(* One INSERT per entry of the array *)
createLogs(tbl, installationId, entries) ==
  [tbl EXCEPT ![installationId] = @ + Len(entries)]

LogsFind(id, authHeader, body) ==
  LET outcome == LogsOutcome(authHeader, id, body, now) IN
  /\ Arrive
  /\ IF outcome # "proceed"
       THEN /\ lastResp' = [Resp("logs", id, outcome) EXCEPT !.header = authHeader]
            /\ UNCHANGED pendingLogs
       ELSE /\ InFlight < MaxInFlight
            /\ pendingLogs' = pendingLogs \cup
                  {[id |-> id, header |-> authHeader, entries |-> body[1]]}
            /\ lastResp' = NoResp
  /\ UNCHANGED <<installations, now, issued, pendingRegister, pendingClaim,
                 pendingBootstrap, pendingHealth, health_reports, logs,
                 registerReturned, claimSuccess,
                 device_codes, deviceHistory,
                 isLocalDev, users, sessions, idp, tokensUsed, loggedOut>>

(* The INSERT of the entries and the 204 *)
LogsInsert(p) ==
  /\ p \in pendingLogs
  /\ Continue
  /\ logs' = createLogs(logs, p.id, p.entries)
  /\ pendingLogs' = pendingLogs \ {p}
  /\ lastResp' = [Resp("logs", p.id, "204") EXCEPT !.header = p.header]
  /\ UNCHANGED <<installations, now, issued, pendingRegister, pendingClaim,
                 pendingBootstrap, pendingHealth, health_reports,
                 registerReturned, claimSuccess,
                 device_codes, deviceHistory,
                 isLocalDev, users, sessions, idp, tokensUsed, loggedOut>>

----------------------------------------------------------------------------
(* OAuth2 device authorization (RFC 8628): POST /oauth/device/code,
   GET /link?code= and POST /oauth/token over the table public.device_codes.
   Each operation is one step on the table. *)

findDeviceCode(deviceCode) == {r \in device_codes : r.device_code = deviceCode}

findDeviceCodeByUserCode(userCode) == {r \in device_codes : r.user_code = userCode}

NewDeviceCode(deviceCode, userCode, clientId, scope, t) ==
  [device_code |-> deviceCode, user_code |-> userCode, client_id |-> clientId,
   scope |-> scope, user_id |-> NULL, authorized |-> FALSE,
   expires_at |-> addSeconds(t, DEVICE_CODE_LIFETIME)]

(* Past its expiry timestamp *)
DeviceCodeExpired(r, t) == t > r.expires_at

(* Mutant: the DELETE is left out *)
deleteDeviceCodeKept(tbl, deviceCode) == tbl

deleteDeviceCode(tbl, deviceCode) == {r \in tbl : r.device_code # deviceCode}

generateOAuthPair(userId, t) ==
  [access_token |-> Some([sub |-> userId, type |-> "oauth_access", iat |-> t,
                          exp |-> t + OAUTH_ACCESS_TOKEN_LIFETIME, key |-> JWT_SECRET]),
   refresh_token |-> Some([sub |-> userId, type |-> "oauth_refresh", iat |-> t,
                           exp |-> t + OAUTH_REFRESH_TOKEN_LIFETIME, key |-> JWT_SECRET]),
   access_expires_at |-> Some(addSeconds(t, OAUTH_ACCESS_TOKEN_LIFETIME)),
   refresh_expires_at |-> Some(addSeconds(t, OAUTH_REFRESH_TOKEN_LIFETIME))]

(* requestCode: a device code never handed out before and a user code no
   outstanding record holds (both columns are UNIQUE) *)
RequestCode(clientId, scope) ==
  /\ Arrive
  /\ \E deviceCode \in DeviceCodes, userCode \in UserCodes :
       /\ ~deviceHistory[deviceCode].requested
       /\ findDeviceCodeByUserCode(userCode) = {}
       /\ device_codes' = device_codes \cup
             {NewDeviceCode(deviceCode, userCode, clientId, scope, now)}
       /\ deviceHistory' = [deviceHistory EXCEPT ![deviceCode].requested = TRUE]
       /\ lastResp' = [Resp("device_code", deviceCode, "200") EXCEPT !.user_code = userCode]
  /\ UNCHANGED <<installations, now, issued, pendingRegister, pendingClaim,
                 pendingBootstrap, pendingHealth, health_reports, pendingLogs, logs,
                 registerReturned, claimSuccess,
                 isLocalDev, users, sessions, idp, tokensUsed, loggedOut>>

(* Mutant: the authorized flag is not looked at, the last caller is bound *)
AuthorizeOutcomeRebinding(found, t) ==
  IF found = {} THEN "invalid code"
  ELSE LET r == CHOOSE x \in found : TRUE IN
       IF DeviceCodeExpired(r, t) THEN "expired code"
       ELSE "authorized"

AuthorizeOutcome(found, t) ==
  IF found = {} THEN "invalid code"
  ELSE LET r == CHOOSE x \in found : TRUE IN
       IF DeviceCodeExpired(r, t) THEN "expired code"
       ELSE IF r.authorized THEN "already authorized"
       ELSE "authorized"

(* authorize, behind requireAuth: userId is the authenticated user *)
Authorize(userCode, userId) ==
  LET found == findDeviceCodeByUserCode(userCode)
      outcome == AuthorizeOutcome(found, now) IN
  /\ Arrive
  /\ lastResp' = [Resp("authorize", userCode, outcome) EXCEPT !.user = userId]
  /\ IF outcome = "authorized"
       THEN LET r == CHOOSE x \in found : TRUE IN
            /\ device_codes' = (device_codes \ {r}) \cup
                  {[r EXCEPT !.authorized = TRUE, !.user_id = Some(userId)]}
            /\ deviceHistory' = [deviceHistory EXCEPT
                                   ![r.device_code].authorized_by = Some(userId)]
       ELSE UNCHANGED <<device_codes, deviceHistory,
                 isLocalDev, users, sessions, idp, tokensUsed, loggedOut>>
  /\ UNCHANGED <<installations, now, issued, pendingRegister, pendingClaim,
                 pendingBootstrap, pendingHealth, health_reports, pendingLogs, logs,
                 registerReturned, claimSuccess,
                 isLocalDev, users, sessions, idp, tokensUsed, loggedOut>>

(* Mutant: an authorized record is exchanged without a look at its expiry *)
ExchangeOutcomeAuthorizedFirst(found, t) ==
  IF found = {} THEN "invalid_grant"
  ELSE LET r == CHOOSE x \in found : TRUE IN
       IF r.authorized THEN "200"
       ELSE IF DeviceCodeExpired(r, t) THEN "expired_token"
       ELSE "authorization_pending"

ExchangeOutcome(found, t) ==
  IF found = {} THEN "invalid_grant"
  ELSE LET r == CHOOSE x \in found : TRUE IN
       IF DeviceCodeExpired(r, t) THEN "expired_token"
       ELSE IF ~r.authorized THEN "authorization_pending"
       ELSE "200"

(* exchangeToken: the poll of the device *)
ExchangeToken(deviceCode) ==
  LET found == findDeviceCode(deviceCode)
      outcome == ExchangeOutcome(found, now) IN
  /\ Arrive
  /\ CASE outcome = "200" ->
            LET r == CHOOSE x \in found : TRUE IN
            /\ device_codes' = deleteDeviceCode(device_codes, deviceCode)
            /\ deviceHistory' = [deviceHistory EXCEPT ![deviceCode].pairs = @ + 1]
            /\ lastResp' = [Resp("token", deviceCode, "200") EXCEPT
                              !.user = r.user_id[1],
                              !.auth = Some(generateOAuthPair(r.user_id[1], now))]
       [] outcome = "expired_token" ->
            /\ device_codes' = deleteDeviceCode(device_codes, deviceCode)
            /\ deviceHistory' = [deviceHistory EXCEPT ![deviceCode].purged = TRUE]
            /\ lastResp' = Resp("token", deviceCode, outcome)
       [] OTHER ->
            /\ lastResp' = Resp("token", deviceCode, outcome)
            /\ UNCHANGED <<device_codes, deviceHistory,
                 isLocalDev, users, sessions, idp, tokensUsed, loggedOut>>
  /\ UNCHANGED <<installations, now, issued, pendingRegister, pendingClaim,
                 pendingBootstrap, pendingHealth, health_reports, pendingLogs, logs,
                 registerReturned, claimSuccess,
                 isLocalDev, users, sessions, idp, tokensUsed, loggedOut>>

(* Time passes for an outstanding device code *)
DeviceTick ==
  /\ \E t \in DeviceTimes : t > now /\ now' = t
  /\ Continue
  /\ lastResp' = NoResp
  /\ UNCHANGED <<installations, issued, pendingRegister, pendingClaim,
                 pendingBootstrap, pendingHealth, health_reports, pendingLogs, logs,
                 device_codes, deviceHistory, registerReturned, claimSuccess,
                 isLocalDev, users, sessions, idp, tokensUsed, loggedOut>>

----------------------------------------------------------------------------
(* Time passes *)
Tick ==
  /\ \E t \in Times : t > now /\ now' = t
  /\ Continue
  /\ lastResp' = NoResp
  /\ UNCHANGED <<installations, issued, pendingRegister, pendingClaim,
                 pendingBootstrap, registerReturned, claimSuccess,
                 pendingHealth, health_reports,
                 pendingLogs, logs,
                 device_codes, deviceHistory,
                 isLocalDev, users, sessions, idp, tokensUsed, loggedOut>>

Next ==
  \/ RegisterInvalid
  \/ \E id \in InstallIds : RegisterFind(id)
  \/ \E p \in pendingRegister : RegisterCreate(p)
  \/ \E u \in Users, c \in ClaimCodes : ClaimFind(u, c, CustomerForm(u))
  \/ \E p \in pendingClaim : ClaimUpdate(p)
  \/ \E id \in InstallIds, h \in AuthHeaders : ConfigFind(id, h)
  \/ \E p \in pendingBootstrap : ConfigStore(p)
  \/ \E id \in InstallIds : ConfirmConfig(id)
  \/ \E tk \in {NULL} \cup {Some(t) : t \in issued \cup ForgedTokens} : RefreshAccessToken(tk)
  \/ \E id \in InstallIds, h \in AuthHeaders : HealthFind(id, h)
  \/ \E p \in pendingHealth : HealthInsert(p)
  \/ \E p \in pendingHealth : HealthUpdate(p)
  \/ \E id \in InstallIds, h \in AuthHeaders, b \in LogBodies : LogsFind(id, h, b)
  \/ \E p \in pendingLogs : LogsInsert(p)
  \/ Tick

Spec == Init /\ [][Next]_vars

(* The service some time into its life: dev-1 has registered with the claim
   code ABC234, U1 has claimed it and the device has fetched its first pair
   of credentials, all at time 0; the record is not confirmed and no request
   is in flight *)
BootstrappedRow ==
  CHOOSE r \in updateInstallation(
                 claimInstallation(createInstallation({}, "dev-1", "ABC234"), "ABC234", "U1",
                                   CustomerForm("U1").customer_name,
                                   CustomerForm("U1").customer_email,
                                   CustomerForm("U1").customer_address, 0),
                 "dev-1",
                 BootstrapUpdates(
                   generateToken([installation_id |-> "dev-1", type |-> "access"],
                                 ACCESS_TOKEN_LIFETIME, 0),
                   generateToken([installation_id |-> "dev-1", type |-> "refresh"],
                                 REFRESH_TOKEN_LIFETIME, 0), 0)) : TRUE

InitBootstrapped ==
  /\ installations = {BootstrappedRow}
  /\ now = 0
  /\ requests = 0
  /\ issued = {BootstrappedRow.access_token[1], BootstrappedRow.refresh_token[1]}
  /\ pendingRegister = {}
  /\ pendingClaim = {}
  /\ pendingBootstrap = {}
  /\ pendingHealth = {}
  /\ health_reports = [id \in InstallIds |-> 0]
  /\ pendingLogs = {}
  /\ logs = [id \in InstallIds |-> 0]
  /\ device_codes = {}
  /\ deviceHistory = [dc \in DeviceCodes |-> NoHistory]
  /\ isLocalDev = FALSE
  /\ users = Accounts
  /\ sessions = {}
  /\ idp = {}
  /\ tokensUsed = {}
  /\ loggedOut = {}
  /\ registerReturned = [id \in InstallIds |-> IF id = "dev-1" THEN {"ABC234"} ELSE {}]
  /\ claimSuccess = [c \in ClaimCodes |-> IF c = "ABC234" THEN {"U1"} ELSE {}]
  /\ lastResp = NoResp

(* From there on, the same steps, for MaxLaterRequests further requests *)
Later == requests < MaxLaterRequests

NextBootstrapped ==
  \/ Later /\ RegisterInvalid
  \/ \E id \in InstallIds : Later /\ RegisterFind(id)
  \/ \E p \in pendingRegister : RegisterCreate(p)
  \/ \E u \in Users, c \in ClaimCodes : Later /\ ClaimFind(u, c, CustomerForm(u))
  \/ \E p \in pendingClaim : ClaimUpdate(p)
  \/ \E id \in InstallIds, h \in AuthHeaders : Later /\ ConfigFind(id, h)
  \/ \E p \in pendingBootstrap : ConfigStore(p)
  \/ \E id \in InstallIds : Later /\ ConfirmConfig(id)
  \/ \E tk \in {NULL} \cup {Some(t) : t \in issued \cup ForgedTokens} :
        Later /\ RefreshAccessToken(tk)
  \/ \E id \in InstallIds, h \in AuthHeaders : Later /\ HealthFind(id, h)
  \/ \E p \in pendingHealth : HealthInsert(p)
  \/ \E p \in pendingHealth : HealthUpdate(p)
  \/ \E id \in InstallIds, h \in AuthHeaders, b \in LogBodies : Later /\ LogsFind(id, h, b)
  \/ \E p \in pendingLogs : LogsInsert(p)
  \/ Tick

SpecBootstrapped == InitBootstrapped /\ [][NextBootstrapped]_vars

(* The instants the clock is looked at around the end of a token's life,
   for tokens signed at 0 and at 1 *)
LifetimeTimes ==
  {0, 1, ACCESS_TOKEN_LIFETIME - 1, ACCESS_TOKEN_LIFETIME, ACCESS_TOKEN_LIFETIME + 1,
   REFRESH_TOKEN_LIFETIME - 1, REFRESH_TOKEN_LIFETIME, REFRESH_TOKEN_LIFETIME + 1}

LifetimeTick ==
  /\ \E t \in LifetimeTimes : t > now /\ now' = t
  /\ Continue
  /\ lastResp' = NoResp
  /\ UNCHANGED <<installations, issued, pendingRegister, pendingClaim,
                 pendingBootstrap, registerReturned, claimSuccess,
                 pendingHealth, health_reports, pendingLogs, logs,
                 device_codes, deviceHistory,
                 isLocalDev, users, sessions, idp, tokensUsed, loggedOut>>

(* A bootstrapped device presenting the tokens it was given, up to and past
   the end of their lives *)
NextLifetimes ==
  \/ \E tk \in issued : Later /\ RefreshAccessToken(Some(tk))
  \/ \E id \in InstallIds, h \in AuthHeaders : Later /\ HealthFind(id, h)
  \/ \E p \in pendingHealth : HealthInsert(p)
  \/ \E p \in pendingHealth : HealthUpdate(p)
  \/ LifetimeTick

SpecLifetimes == InitBootstrapped /\ [][NextLifetimes]_vars

(* A bootstrapped device refreshing, reporting health and confirming, in any
   order and with its health report in flight across the others *)
NextOwnFields ==
  \/ \E tk \in issued : Later /\ RefreshAccessToken(Some(tk))
  \/ \E tk \in issued : Later /\ HealthFind(tk.installation_id, <<"Bearer", tk>>)
  \/ \E p \in pendingHealth : HealthInsert(p)
  \/ \E p \in pendingHealth : HealthUpdate(p)
  \/ \E id \in InstallIds : Later /\ ConfirmConfig(id)
  \/ Tick

SpecOwnFields == InitBootstrapped /\ [][NextOwnFields]_vars

(* dev-1 has registered with the claim code ABC234 and U1 has claimed it, at
   time 0; the device has not fetched its credentials yet *)
ClaimedRow ==
  CHOOSE r \in claimInstallation(createInstallation({}, "dev-1", "ABC234"), "ABC234", "U1",
                                 CustomerForm("U1").customer_name,
                                 CustomerForm("U1").customer_email,
                                 CustomerForm("U1").customer_address, 0) : TRUE

InitClaimed ==
  /\ installations = {ClaimedRow}
  /\ now = 0
  /\ requests = 0
  /\ issued = {}
  /\ pendingRegister = {}
  /\ pendingClaim = {}
  /\ pendingBootstrap = {}
  /\ pendingHealth = {}
  /\ health_reports = [id \in InstallIds |-> 0]
  /\ pendingLogs = {}
  /\ logs = [id \in InstallIds |-> 0]
  /\ device_codes = {}
  /\ deviceHistory = [dc \in DeviceCodes |-> NoHistory]
  /\ isLocalDev = FALSE
  /\ users = Accounts
  /\ sessions = {}
  /\ idp = {}
  /\ tokensUsed = {}
  /\ loggedOut = {}
  /\ registerReturned = [id \in InstallIds |-> IF id = "dev-1" THEN {"ABC234"} ELSE {}]
  /\ claimSuccess = [c \in ClaimCodes |-> IF c = "ABC234" THEN {"U1"} ELSE {}]
  /\ lastResp = NoResp

(* The routes that write credentials, with a store that can fail under the
   UPDATE of a bootstrap *)
NextStoreFails ==
  \/ \E id \in InstallIds, h \in AuthHeaders : Later /\ ConfigFind(id, h)
  \/ \E p \in pendingBootstrap : ConfigStore(p)
  \/ \E p \in pendingBootstrap : ConfigStoreFails(p)
  \/ \E id \in InstallIds : Later /\ ConfirmConfig(id)
  \/ \E tk \in {NULL} \cup {Some(t) : t \in issued \cup ForgedTokens} :
        Later /\ RefreshAccessToken(tk)
  \/ Tick

SpecStoreFails == InitClaimed /\ [][NextStoreFails]_vars

(* The forms a claim can be posted with: req.body as the browser sent it,
   complete, with customer_name or customer_email absent, or with
   customer_name blank *)
ClaimForms ==
  {CustomerForm("U1"),
   [CustomerForm("U1") EXCEPT !.customer_name = NULL],
   [CustomerForm("U1") EXCEPT !.customer_email = NULL],
   [CustomerForm("U1") EXCEPT !.customer_name = Some("")]}

(* Registration and claiming alone, the claim posted with any of the forms *)
NextClaimForms ==
  \/ \E id \in InstallIds : Later /\ RegisterFind(id)
  \/ \E p \in pendingRegister : RegisterCreate(p)
  \/ \E u \in Users, c \in ClaimCodes, f \in ClaimForms : Later /\ ClaimFind(u, c, f)
  \/ \E p \in pendingClaim : ClaimUpdate(p)
  \/ Tick

SpecClaimForms == Init /\ [][NextClaimForms]_vars

(* The device authorization flow on its own: it shares the clock with the
   installation routes and none of their tables *)
NextDevice ==
  \/ RequestCode("home-assistant", "profile")
  \/ \E uc \in UserCodes, u \in Users : Authorize(uc, u)
  \/ \E dc \in DeviceCodes : ExchangeToken(dc)
  \/ DeviceTick

SpecDevice == Init /\ [][NextDevice]_vars

----------------------------------------------------------------------------
(* The code generators *)

(* Math.random() in steps of 1/RandomGrain: the value n / RandomGrain *)
RandomGrain == 64
RandomSteps == 8
MaxDraws    == 1

ClaimCodeLength == 6
UserCodeHalf    == 4

(* Mutant: the alphabet with the digits and letters that look alike *)
ClaimCharsWithLookalikes ==
  <<"A", "B", "C", "D", "E", "F", "G", "H", "I", "J", "K", "L", "M", "N",
    "O", "P", "Q", "R", "S", "T", "U", "V", "W", "X", "Y", "Z", "0", "1",
    "2", "3", "4", "5">>

(* 'ABCDEFGHJKLMNPQRSTUVWXYZ23456789', a character to an element *)
ClaimChars ==
  <<"A", "B", "C", "D", "E", "F", "G", "H", "J", "K", "L", "M", "N", "P",
    "Q", "R", "S", "T", "U", "V", "W", "X", "Y", "Z", "2", "3", "4", "5",
    "6", "7", "8", "9">>

(* 'ABCDEFGHJKLMNPQRSTUVWXYZ' *)
UserChars ==
  <<"A", "B", "C", "D", "E", "F", "G", "H", "J", "K", "L", "M", "N", "P",
    "Q", "R", "S", "T", "U", "V", "W", "X", "Y", "Z">>

(* chars.charAt(Math.floor(Math.random() * chars.length)) *)
RandomChar(chars, n) == chars[((n * Len(chars)) \div RandomGrain) + 1]

RECURSIVE AppendChars(_, _, _, _, _)
(* for (let i = from; i < to; i++) code += a random character of chars,
   the i-th call of Math.random() giving draws[i + 1] *)
AppendChars(code, chars, draws, i, to) ==
  IF i < to
    THEN AppendChars(Append(code, RandomChar(chars, draws[i + 1])), chars, draws, i + 1, to)
    ELSE code

generateClaimCode(draws) == AppendChars(<<>>, ClaimChars, draws, 0, ClaimCodeLength)

generateUserCode(draws) ==
  LET first == AppendChars(<<>>, UserChars, draws, 0, UserCodeHalf)
      dash  == Append(first, "-")
  IN AppendChars(dash, UserChars, [i \in 1..UserCodeHalf |-> draws[UserCodeHalf + i]],
                 0, UserCodeHalf)

(* The runs of Math.random() the generators are tried with: any first value
   and any constant step between one value and the next *)
RandomRuns ==
  {[i \in 1..(2 * UserCodeHalf) |-> (seed + (i - 1) * step) % RandomGrain] :
     seed \in 0..(RandomGrain - 1), step \in 0..(RandomSteps - 1)}

GenerateClaimCode(draws) ==
  /\ requests < MaxDraws
  /\ lastResp' = [Resp("generateClaimCode", "", "") EXCEPT
                    !.effects = generateClaimCode(draws)]
  /\ requests' = requests + 1
  /\ UNCHANGED <<installations, now, issued, pendingRegister, pendingClaim,
                 pendingBootstrap, registerReturned, claimSuccess,
                 pendingHealth, health_reports, pendingLogs, logs,
                 device_codes, deviceHistory,
                 isLocalDev, users, sessions, idp, tokensUsed, loggedOut>>

GenerateUserCode(draws) ==
  /\ requests < MaxDraws
  /\ lastResp' = [Resp("generateUserCode", "", "") EXCEPT
                    !.effects = generateUserCode(draws)]
  /\ requests' = requests + 1
  /\ UNCHANGED <<installations, now, issued, pendingRegister, pendingClaim,
                 pendingBootstrap, registerReturned, claimSuccess,
                 pendingHealth, health_reports, pendingLogs, logs,
                 device_codes, deviceHistory,
                 isLocalDev, users, sessions, idp, tokensUsed, loggedOut>>

NextGenerators ==
  \/ \E draws \in RandomRuns : GenerateClaimCode(draws)
  \/ \E draws \in RandomRuns : GenerateUserCode(draws)

SpecGenerators == Init /\ [][NextGenerators]_vars

----------------------------------------------------------------------------
(* Dashboard sessions: the users and sessions tables, the identity provider
   and the requireAuth middleware *)

SESSION_LIFETIME == 30 * 24 * 60 * 60

(* The instants the clock is looked at around a session's expiry *)
WebTimes == {0, SESSION_LIFETIME - 1, SESSION_LIFETIME, SESSION_LIFETIME + 1}

SessionTokens == {"tok-1", "tok-2", "tok-3"}
UnknownToken  == "tok-x"
NewUserIds    == {"U3"}
NewEmails     == {"cy@example.com"}
Names         == {"Zed"}

(* The accounts the identity provider holds: Ann's id there differs from the
   id of her row in users, Bob's is the same, Dee has no row in users *)
IdpUsers ==
  {[id |-> "S1", email |-> "ann@example.com", name |-> "Ann"],
   [id |-> "U2", email |-> "bob@example.com", name |-> "Bob"],
   [id |-> "S4", email |-> "dee@example.com", name |-> "Dee"]}

IdpPairs ==
  {[access_token |-> "at-1", refresh_token |-> "rt-1"],
   [access_token |-> "at-2", refresh_token |-> "rt-2"],
   [access_token |-> "at-3", refresh_token |-> "rt-3"]}

FreshPairs == {p \in IdpPairs : p.access_token \notin tokensUsed}

(* randomUUID and the provider's token generator: a value not seen before *)
FreshToken == CHOOSE t \in SessionTokens : t \notin tokensUsed
FreshPair  == CHOOSE p \in FreshPairs : TRUE

MaxWebRequests == 3
WebArrive == requests < MaxWebRequests /\ requests' = requests + 1

findUserByEmail(tbl, email) == {u \in tbl : u.email = email}

findUserById(tbl, id) == {u \in tbl : u.id = id}

createUser(tbl, id, email, name) ==
  tbl \cup {[id |-> id, email |-> email, name |-> name]}

(* UPDATE users SET name = ... WHERE id = userId *)
updateUser(tbl, userId, name) ==
  {IF u.id = userId THEN [u EXCEPT !.name = name] ELSE u : u \in tbl}

createSession(tbl, userId, token, t) ==
  tbl \cup {[user_id |-> userId, token |-> token,
             expires_at |-> t + SESSION_LIFETIME]}

findSessionByTokenAtExpiry(tbl, token, t) ==
  {s \in tbl : s.token = token /\ s.expires_at >= t}

(* WHERE token = $1 AND expires_at > NOW() *)
findSessionByToken(tbl, token, t) ==
  {s \in tbl : s.token = token /\ s.expires_at > t}

deleteSession(tbl, token) == {s \in tbl : s.token # token}

(* supabase.auth.getUser: the account of a live access token, or none *)
getUser(tbl, accessToken) ==
  {s.user : s \in {r \in tbl : r.access_token = accessToken /\ r.access_live}}

(* supabase.auth.refreshSession: the provider session a live refresh token
   belongs to, or none *)
refreshSession(tbl, refreshToken) ==
  {r \in tbl : Some(r.refresh_token) = refreshToken /\ r.refresh_live}

IdpSession(pair, user) ==
  [access_token |-> pair.access_token, refresh_token |-> pair.refresh_token,
   user |-> user, access_live |-> TRUE, refresh_live |-> TRUE]

(* Rows that reference users(id): installations.claimed_by and
   sessions.user_id, neither declared ON UPDATE CASCADE *)
Referenced(id) ==
  \/ \E i \in installations : i.claimed_by = Some(id)
  \/ \E s \in sessions : s.user_id = id

DeviceTablesUnchanged ==
  UNCHANGED <<installations, issued, pendingRegister, pendingClaim,
              pendingBootstrap, registerReturned, claimSuccess,
              pendingHealth, health_reports, pendingLogs, logs,
              device_codes, deviceHistory, isLocalDev>>

(* POST /auth/register, local strategy *)
AuthRegister(name, email, id) ==
  /\ isLocalDev
  /\ WebArrive
  /\ IF findUserByEmail(users, email) # {}
       THEN /\ lastResp' = [Resp("auth/register", email, "302") EXCEPT
                              !.effects = <<"redirect /register">>]
            /\ UNCHANGED <<users, sessions, tokensUsed>>
       ELSE /\ id \notin {u.id : u \in users}
            /\ SessionTokens \ tokensUsed # {}
            /\ users' = createUser(users, id, email, name)
            /\ sessions' = createSession(sessions, id, FreshToken, now)
            /\ tokensUsed' = tokensUsed \cup {FreshToken}
            /\ lastResp' = [Resp("auth/register", email, "302") EXCEPT
                              !.token = Some(FreshToken), !.user = id,
                              !.effects = <<"cookie sb_access_token",
                                            "redirect /installations">>]
  /\ UNCHANGED <<now, idp>>
  /\ DeviceTablesUnchanged
  /\ UNCHANGED loggedOut

(* POST /auth/login: the local strategy opens a session row, the provider
   strategy has the provider open one *)
AuthLogin(email, passwordOk) ==
  /\ WebArrive
  /\ IF isLocalDev
       THEN IF findUserByEmail(users, email) = {} \/ ~passwordOk
              THEN /\ lastResp' = [Resp("auth/login", email, "302") EXCEPT
                                     !.effects = <<"redirect /login">>]
                   /\ UNCHANGED <<sessions, idp, tokensUsed>>
              ELSE /\ SessionTokens \ tokensUsed # {}
                   /\ LET user == CHOOSE u \in findUserByEmail(users, email) : TRUE
                      IN /\ sessions' = createSession(sessions, user.id, FreshToken, now)
                         /\ lastResp' = [Resp("auth/login", email, "302") EXCEPT
                                           !.token = Some(FreshToken), !.user = user.id,
                                           !.effects = <<"cookie sb_access_token",
                                                         "redirect /installations">>]
                   /\ tokensUsed' = tokensUsed \cup {FreshToken}
                   /\ UNCHANGED idp
       ELSE IF (\A a \in IdpUsers : a.email # email) \/ ~passwordOk
              THEN /\ lastResp' = [Resp("auth/login", email, "302") EXCEPT
                                     !.effects = <<"redirect /login">>]
                   /\ UNCHANGED <<sessions, idp, tokensUsed>>
              ELSE /\ FreshPairs # {}
                   /\ LET user == CHOOSE a \in IdpUsers : a.email = email
                      IN /\ idp' = idp \cup {IdpSession(FreshPair, user)}
                         /\ lastResp' = [Resp("auth/login", email, "302") EXCEPT
                                           !.token = Some(FreshPair.access_token),
                                           !.user = user.id,
                                           !.effects = <<"cookie sb_access_token",
                                                         "cookie sb_refresh_token",
                                                         "redirect /installations">>]
                   /\ tokensUsed' = tokensUsed \cup {FreshPair.access_token}
                   /\ UNCHANGED sessions
  /\ UNCHANGED <<now, users>>
  /\ DeviceTablesUnchanged
  /\ UNCHANGED loggedOut

(* GET /logout with the access cookie token, local strategy *)
Logout(token) ==
  /\ isLocalDev
  /\ WebArrive
  /\ sessions' = deleteSession(sessions, token)
  /\ lastResp' = [Resp("logout", token, "302") EXCEPT
                    !.effects = <<"clearCookie sb_access_token",
                                  "clearCookie sb_refresh_token",
                                  "redirect /login">>]
  /\ UNCHANGED <<now, users, idp, tokensUsed>>
  /\ DeviceTablesUnchanged
  /\ loggedOut' = loggedOut \cup {token}

(* GET /logout when the DELETE fails: deleteSession(token).catch(() => {})
   drops the error and the answer is the same *)
LogoutDeleteFails(token) ==
  /\ isLocalDev
  /\ WebArrive
  /\ UNCHANGED sessions
  /\ lastResp' = [Resp("logout", token, "302") EXCEPT
                    !.effects = <<"clearCookie sb_access_token",
                                  "clearCookie sb_refresh_token",
                                  "redirect /login">>]
  /\ UNCHANGED <<now, users, idp, tokensUsed>>
  /\ DeviceTablesUnchanged
  /\ loggedOut' = loggedOut \cup {token}

(* The provider lets an access token lapse, or withdraws a refresh token *)
IdpAccessExpires(at) ==
  /\ ~isLocalDev
  /\ \E r \in idp : /\ r.access_token = at
                    /\ r.access_live
                    /\ idp' = (idp \ {r}) \cup {[r EXCEPT !.access_live = FALSE]}
  /\ Continue
  /\ lastResp' = NoResp
  /\ UNCHANGED <<now, users, sessions, tokensUsed>>
  /\ DeviceTablesUnchanged
  /\ UNCHANGED loggedOut

IdpRefreshRevoked(rt) ==
  /\ ~isLocalDev
  /\ \E r \in idp : /\ r.refresh_token = rt
                    /\ r.refresh_live
                    /\ idp' = (idp \ {r}) \cup {[r EXCEPT !.refresh_live = FALSE]}
  /\ Continue
  /\ lastResp' = NoResp
  /\ UNCHANGED <<now, users, sessions, tokensUsed>>
  /\ DeviceTablesUnchanged
  /\ UNCHANGED loggedOut

WebTick ==
  /\ isLocalDev
  /\ \E t \in WebTimes : t > now /\ now' = t
  /\ Continue
  /\ lastResp' = NoResp
  /\ UNCHANGED <<users, sessions, idp, tokensUsed>>
  /\ DeviceTablesUnchanged
  /\ UNCHANGED loggedOut

(* What requireAuth did with a request: the response calls it made, in
   order, the user context it attached and the cookies it set *)
Verdict(effects, ctx, cookies) ==
  [effects |-> effects, ctx |-> ctx, cookies |-> cookies]

ToLogin == Verdict(<<"redirect /login">>, NULL, NULL)

ClearedAccess ==
  Verdict(<<"clearCookie sb_access_token", "redirect /login">>, NULL, NULL)

ClearedBoth ==
  Verdict(<<"clearCookie sb_access_token", "clearCookie sb_refresh_token",
            "redirect /login">>, NULL, NULL)

Proceeds(user) == Verdict(<<"next">>, Some(user), NULL)

RefreshedFallingThrough(user, pair) ==
  Verdict(<<"cookie sb_access_token", "cookie sb_refresh_token", "next",
            "clearCookie sb_access_token", "clearCookie sb_refresh_token",
            "redirect /login">>, Some(user), Some(pair))

Refreshed(user, pair) ==
  Verdict(<<"cookie sb_access_token", "cookie sb_refresh_token", "next">>,
          Some(user), Some(pair))

(* requireAuth, local strategy *)
requireAuthLocal(accessToken) ==
  LET session == findSessionByToken(sessions, accessToken, now)
  IN IF session = {}
       THEN ClearedAccess
       ELSE LET user == findUserById(users, (CHOOSE s \in session : TRUE).user_id)
            IN IF user = {}
                 THEN ClearedAccess
                 ELSE Proceeds(CHOOSE u \in user : TRUE)

(* The user sync of requireAuth, provider strategy: the users table after
   it. The UPDATE of a referenced id is refused by the foreign keys and the
   handler catches the error *)
syncUsers(tbl, user) ==
  IF findUserById(tbl, user.id) # {}
    THEN tbl
    ELSE LET existingByEmail == findUserByEmail(tbl, user.email)
         IN IF existingByEmail # {}
              THEN LET e == CHOOSE u \in existingByEmail : TRUE
                   IN IF Referenced(e.id)
                        THEN tbl
                        ELSE (tbl \ {e}) \cup {[e EXCEPT !.id = user.id]}
              ELSE createUser(tbl, user.id, user.email, user.name)

(* req.user after the sync *)
syncContext(tbl, user) ==
  LET profile == findUserById(tbl, user.id)
      existingByEmail == findUserByEmail(tbl, user.email)
  IN IF profile # {}
       THEN CHOOSE u \in profile : TRUE
       ELSE IF existingByEmail # {}
              THEN LET e == CHOOSE u \in existingByEmail : TRUE
                   IN IF Referenced(e.id) THEN user ELSE [e EXCEPT !.id = user.id]
              ELSE user

Routes == {"installations", "settings/profile"}

(* The route behind requireAuth: POST /settings/profile renames the user,
   GET /installations only reads *)
RouteUsers(tbl, route, v, name) ==
  IF v.ctx # NULL /\ route = "settings/profile"
    THEN updateUser(tbl, v.ctx[1].id, name)
    ELSE tbl

AuthResp(route, accessToken, refreshToken, v) ==
  [Resp("requireAuth", route, IF v.ctx # NULL THEN "200" ELSE "302") EXCEPT
     !.token = accessToken, !.refresh = refreshToken,
     !.effects = v.effects, !.ctx = v.ctx, !.cookies = v.cookies]

(* A request for a route behind requireAuth carrying the cookies
   sb_access_token and sb_refresh_token (NULL when absent) *)
RequireAuth(accessToken, refreshToken, route, name) ==
  /\ isLocalDev => refreshToken = NULL
  /\ WebArrive
  /\ IF accessToken = NULL
       THEN /\ lastResp' = AuthResp(route, accessToken, refreshToken, ToLogin)
            /\ UNCHANGED <<users, idp, tokensUsed>>
       ELSE IF isLocalDev
         THEN LET v == requireAuthLocal(accessToken[1])
              IN /\ lastResp' = AuthResp(route, accessToken, refreshToken, v)
                 /\ users' = RouteUsers(users, route, v, name)
                 /\ UNCHANGED <<idp, tokensUsed>>
         ELSE LET user == getUser(idp, accessToken[1])
                  refreshData == refreshSession(idp, refreshToken)
              IN IF user = {}
                   THEN IF refreshToken # NULL /\ refreshData # {}
                          THEN LET r == CHOOSE x \in refreshData : TRUE
                                   v == Refreshed(r.user, FreshPair)
                               IN /\ FreshPairs # {}
                                  /\ idp' = (idp \ {r})
                                              \cup {[r EXCEPT !.refresh_live = FALSE],
                                                    IdpSession(FreshPair, r.user)}
                                  /\ tokensUsed' = tokensUsed \cup {FreshPair.access_token}
                                  /\ lastResp' = AuthResp(route, accessToken,
                                                          refreshToken, v)
                                  /\ users' = RouteUsers(users, route, v, name)
                          ELSE /\ lastResp' = AuthResp(route, accessToken,
                                                       refreshToken, ClearedBoth)
                               /\ UNCHANGED <<users, idp, tokensUsed>>
                   ELSE LET u == CHOOSE x \in user : TRUE
                            v == Proceeds(syncContext(users, u))
                        IN /\ lastResp' = AuthResp(route, accessToken, refreshToken, v)
                           /\ users' = RouteUsers(syncUsers(users, u), route, v, name)
                           /\ UNCHANGED <<idp, tokensUsed>>
  /\ UNCHANGED <<now, sessions>>
  /\ DeviceTablesUnchanged
  /\ UNCHANGED loggedOut

(* The dashboard starts with the accounts registered earlier, under either
   strategy *)
InitWeb ==
  /\ installations = {}
  /\ now = 0
  /\ requests = 0
  /\ issued = {}
  /\ pendingRegister = {}
  /\ pendingClaim = {}
  /\ pendingBootstrap = {}
  /\ pendingHealth = {}
  /\ health_reports = [id \in InstallIds |-> 0]
  /\ pendingLogs = {}
  /\ logs = [id \in InstallIds |-> 0]
  /\ device_codes = {}
  /\ deviceHistory = [dc \in DeviceCodes |-> NoHistory]
  /\ isLocalDev \in BOOLEAN
  /\ users = Accounts
  /\ sessions = {}
  /\ idp = {}
  /\ tokensUsed = {}
  /\ loggedOut = {}
  /\ registerReturned = [id \in InstallIds |-> {}]
  /\ claimSuccess = [c \in ClaimCodes |-> {}]
  /\ lastResp = NoResp

(* The session tokens a browser can carry to /logout: one it was given, or
   one the server never issued *)
CarriedTokens == (SessionTokens \cap tokensUsed) \cup {UnknownToken}

AccessCookies ==
  {NULL} \cup IF isLocalDev
               THEN {Some(t) : t \in SessionTokens \cup {UnknownToken}}
               ELSE {Some(p.access_token) : p \in IdpPairs} \cup {Some(UnknownToken)}

RefreshCookies == {NULL} \cup {Some(p.refresh_token) : p \in IdpPairs}

NextWeb ==
  \/ \E name \in Names, email \in NewEmails, id \in NewUserIds :
        AuthRegister(name, email, id)
  \/ \E a \in IdpUsers, ok \in BOOLEAN : AuthLogin(a.email, ok)
  \/ \E t \in CarriedTokens : Logout(t)
  \/ \E at \in AccessCookies, rt \in RefreshCookies, route \in Routes,
        name \in Names : RequireAuth(at, rt, route, name)
  \/ \E p \in IdpPairs : IdpAccessExpires(p.access_token)
  \/ \E p \in IdpPairs : IdpRefreshRevoked(p.refresh_token)
  \/ WebTick

SpecWeb == InitWeb /\ [][NextWeb]_vars

(* The dashboard with a database that can fail the DELETE of a logout *)
NextLogoutFails ==
  \/ \E a \in IdpUsers, ok \in BOOLEAN : AuthLogin(a.email, ok)
  \/ \E t \in CarriedTokens : Logout(t)
  \/ \E t \in CarriedTokens : LogoutDeleteFails(t)
  \/ \E at \in AccessCookies, route \in Routes, name \in Names :
        RequireAuth(at, NULL, route, name)
  \/ WebTick

InitLocal == InitWeb /\ isLocalDev

SpecLogoutFails == InitLocal /\ [][NextLogoutFails]_vars

----------------------------------------------------------------------------
(* What a step shows of the request that arrived in it *)

RowOf(id) == findInstallationByInstallId(id)

ConfigArrives(id, h) ==
  /\ requests' = requests + 1
  /\ \/ lastResp'.op = "config" /\ lastResp'.key = id /\ lastResp'.header = h
     \/ \E p \in pendingBootstrap' \ pendingBootstrap : p.id = id /\ p.header = h

ClaimArrives(u, c) ==
  /\ requests' = requests + 1
  /\ \/ lastResp'.op = "claim" /\ lastResp'.key = c /\ lastResp'.user = u
     \/ \E p \in pendingClaim' \ pendingClaim : p.code = c /\ p.userId = u

RequireAuthArrives(accessToken, refreshToken) ==
  /\ requests' = requests + 1
  /\ lastResp'.op = "requireAuth"
  /\ lastResp'.token = accessToken
  /\ lastResp'.refresh = refreshToken

ValidBearerFor(h, id, t) ==
  /\ startsWithBearer(h)
  /\ verifyToken(h[2], t) # NULL
  /\ verifyToken(h[2], t)[1].installation_id = id

----------------------------------------------------------------------------
(* C1: every claim code that register has returned for an installId is the
   same one: the code stored on the one record of that installId. *)
C1_RegisterIdempotent ==
  \A id \in InstallIds :
    /\ Cardinality(RowOf(id)) <= 1
    /\ Cardinality(registerReturned[id]) <= 1
    /\ registerReturned[id] \subseteq {r.claim_code : r \in RowOf(id)}

(* a register call has found the record and answered with its code *)
C1_Witness ==
  /\ lastResp.op = "register" /\ lastResp.status = "200"
  /\ registerReturned[lastResp.key] = {lastResp.claim_code}
  /\ \E r \in RowOf(lastResp.key) : r.claim_code = lastResp.claim_code

(* C2: of the claim requests made against one claim code, at most one user is
   told that the claim succeeded; the others are told "already claimed". *)
C2_OneClaimReportedSuccess ==
  \A c \in ClaimCodes : Cardinality(claimSuccess[c]) <= 1

(* C3: once claimed_at is set on an installation, no step changes or clears
   its claimed_by or claimed_at. *)
C3_OwnerWrittenOnce ==
  [][\A r \in installations :
       r.claimed_at # NULL =>
         \E r2 \in installations' :
           /\ r2.install_id = r.install_id
           /\ r2.claimed_by = r.claimed_by
           /\ r2.claimed_at = r.claimed_at]_vars

(* the UPDATE of a second claimer has run against a record another user owns *)
C3_Witness ==
  /\ lastResp.op = "claim" /\ lastResp.status = "Device claimed!"
  /\ \E r \in findInstallationByClaimCode(lastResp.key) :
       r.claimed_at # NULL /\ r.claimed_by # Some(lastResp.user)

(* C4: a claim request that arrives when the code's record is already claimed
   is answered "Already claimed", sends no UPDATE and leaves the table as it
   is. *)
C4_LateClaimConflicts ==
  [][\A u \in Users, c \in ClaimCodes :
       (ClaimArrives(u, c) /\ \E r \in findInstallationByClaimCode(c) : r.claimed_at # NULL)
         => /\ lastResp'.status = "Already claimed"
            /\ pendingClaim' = pendingClaim
            /\ installations' = installations]_vars

(* U2 has been told "Already claimed" and the record still is U1's, with the
   customer fields of U1's form *)
C4_Witness ==
  /\ lastResp.op = "claim" /\ lastResp.status = "Already claimed" /\ lastResp.user = "U2"
  /\ \E r \in findInstallationByClaimCode(lastResp.key) :
       /\ r.claimed_by = Some("U1")
       /\ r.customer_name = CustomerForm("U1").customer_name
       /\ r.customer_email = CustomerForm("U1").customer_email
       /\ r.customer_address = CustomerForm("U1").customer_address

(* C5: a config request for a registered, unclaimed installation is answered
   not_claimed with no auth block, signs nothing and writes nothing, whatever
   its Authorization header and whatever config_confirmed is. *)
C5_UnclaimedFetchNotClaimed ==
  [][\A id \in InstallIds, h \in AuthHeaders :
       (ConfigArrives(id, h) /\ \E r \in RowOf(id) : r.claimed_at = NULL)
         => /\ lastResp'.status = "not_claimed"
            /\ lastResp'.auth = NULL
            /\ pendingBootstrap' = pendingBootstrap
            /\ installations' = installations
            /\ issued' = issued]_vars

(* not_claimed was the answer to a Bearer header on a confirmed, unclaimed
   record *)
C5_Witness ==
  /\ lastResp.op = "config" /\ lastResp.status = "not_claimed"
  /\ startsWithBearer(lastResp.header)
  /\ \E r \in RowOf(lastResp.key) : r.claimed_at = NULL /\ r.config_confirmed

(* C6: a config request without a bearer token for a claimed installation
   whose config_confirmed is true is answered unauthorized, with no auth
   block, and neither signs nor stores credentials. *)
C6_ConfirmedNeedsBearer ==
  [][\A id \in InstallIds, h \in AuthHeaders :
       (/\ ConfigArrives(id, h)
        /\ ~startsWithBearer(h)
        /\ \E r \in RowOf(id) : r.claimed_at # NULL /\ r.config_confirmed)
         => /\ lastResp'.status = "unauthorized"
            /\ lastResp'.auth = NULL
            /\ pendingBootstrap' = pendingBootstrap
            /\ installations' = installations]_vars

(* C7: on a claimed installation a config request is a resync when it carries
   a bearer token valid for the path id, a bootstrap when it presents no
   bearer token and the record is not confirmed, and is rejected without
   signing or storing anything in every other case, a confirmed record
   reached with a header that is no valid Bearer token among them. *)
C7_ThreeBranches ==
  [][\A id \in InstallIds, h \in AuthHeaders :
       (ConfigArrives(id, h) /\ \E r \in RowOf(id) : r.claimed_at # NULL)
         => IF ValidBearerFor(h, id, now)
              THEN lastResp'.status = "resync" /\ pendingBootstrap' = pendingBootstrap
            ELSE IF ~startsWithBearer(h) /\ \E r \in RowOf(id) : ~r.config_confirmed
              THEN \E p \in pendingBootstrap' : p.id = id /\ p.header = h
            ELSE /\ lastResp'.status \in {"unauthorized", "TOKEN_EXPIRED"}
                 /\ pendingBootstrap' = pendingBootstrap
                 /\ installations' = installations]_vars

(* The auth block of a bootstrap answer is the pair now stored on the record,
   an access and a refresh token for that installId *)
C8_StoredIsReturned ==
  (lastResp.op = "config" /\ lastResp.status = "bootstrap") =>
    \E r \in RowOf(lastResp.key) :
      LET a == lastResp.auth[1] IN
      /\ r.access_token = a.access_token
      /\ r.refresh_token = a.refresh_token
      /\ r.access_expires_at = a.access_expires_at
      /\ r.refresh_expires_at = a.refresh_expires_at
      /\ a.access_token[1].installation_id = lastResp.key
      /\ a.access_token[1].type = "access"
      /\ a.refresh_token[1].installation_id = lastResp.key
      /\ a.refresh_token[1].type = "refresh"

(* A config request without Authorization header for a claimed, unconfirmed
   record takes the bootstrap and signs a pair at the current time *)
C8_AnonymousFetchBootstraps ==
  \A id \in InstallIds :
    (/\ ConfigArrives(id, NULL)
     /\ \E r \in RowOf(id) : r.claimed_at # NULL /\ ~r.config_confirmed)
      => \E p \in pendingBootstrap' :
           /\ p.id = id /\ p.header = NULL /\ p.now = now
           /\ p.accessToken.iat = now /\ p.refreshToken.iat = now

(* C8: a config request without Authorization header on a claimed,
   unconfirmed installation signs an access and a refresh token for that
   installId; the pair in the answer is the pair stored on the record after
   the UPDATE; as long as the record is unconfirmed such a request takes the
   bootstrap again and its pair replaces the stored one. *)
C8_BootstrapStoresWhatItReturns ==
  []C8_StoredIsReturned /\ [][C8_AnonymousFetchBootstraps]_vars

(* a second anonymous bootstrap has replaced the pair an earlier one stored *)
C8_Witness ==
  /\ lastResp.op = "config" /\ lastResp.status = "bootstrap" /\ lastResp.header = NULL
  /\ \E r \in RowOf(lastResp.key) :
       /\ ~r.config_confirmed
       /\ r.refresh_token = lastResp.auth[1].refresh_token
       /\ \E tk \in issued :
            /\ tk.type = "refresh" /\ tk.installation_id = lastResp.key
            /\ Some(tk) # r.refresh_token

(* C9: a config request with a bearer token valid for the path id is answered
   with the customer block of the record and no auth block, and changes
   neither the table nor the set of signed tokens. *)
C9_ResyncChangesNothing ==
  [][\A id \in InstallIds, h \in AuthHeaders :
       (ConfigArrives(id, h) /\ ValidBearerFor(h, id, now))
         => /\ lastResp'.status = "resync"
            /\ lastResp'.auth = NULL
            /\ \E r \in RowOf(id) : lastResp'.customer = Some(CustomerBlock(r))
            /\ pendingBootstrap' = pendingBootstrap
            /\ installations' = installations
            /\ issued' = issued]_vars

(* a resync has been answered with the customer of a record holding
   credentials *)
C9_Witness ==
  /\ lastResp.op = "config" /\ lastResp.status = "resync"
  /\ ValidBearerFor(lastResp.header, lastResp.key, now)
  /\ \E r \in RowOf(lastResp.key) :
       /\ r.access_token # NULL /\ r.refresh_token # NULL
       /\ lastResp.customer = Some(CustomerBlock(r))
       /\ lastResp.customer[1].name # ""

(* C10: no step takes config_confirmed of an installation from true to
   false, or removes the record. *)
C10_ConfirmedIsIrreversible ==
  [][\A r \in installations :
       r.config_confirmed =>
         \E r2 \in installations' : r2.install_id = r.install_id /\ r2.config_confirmed]_vars

(* a later operation has written credentials to a confirmed record, which is
   still confirmed *)
C10_Witness ==
  /\ lastResp.op \in {"refresh", "config"} /\ lastResp.auth # NULL
  /\ \E r \in RowOf(lastResp.key) :
       r.config_confirmed /\ r.access_token = lastResp.auth[1].access_token

(* C11: an installation whose config_confirmed is true has been claimed and
   holds the credentials of a bootstrap. *)
C11_ConfirmedImpliesBootstrapped ==
  \A r \in installations :
    r.config_confirmed =>
      /\ r.claimed_at # NULL
      /\ r.access_token # NULL
      /\ r.refresh_token # NULL

(* The step in which a refresh request presenting the token tk is handled *)
RefreshArrives(tk) ==
  /\ requests' = requests + 1
  /\ lastResp'.op = "refresh"
  /\ lastResp'.token = Some(tk)

(* C12: a refresh request that succeeds answers with a new access token for
   the installation named in the refresh token and stores it and its expiry
   on that record; the record's refresh token, refresh expiry, owner and
   config_confirmed, and every other record, stay as they were, and the
   refresh token presented is still one the endpoint accepts. *)
C12_RefreshFrame ==
  [][\A tk \in issued \cup ForgedTokens :
       (RefreshArrives(tk) /\ lastResp'.status = "200")
         => LET id == tk.installation_id
                new == lastResp'.auth[1].access_token IN
            /\ lastResp'.key = id
            /\ new # NULL /\ new[1].type = "access" /\ new[1].installation_id = id
            /\ new[1].exp = now + ACCESS_TOKEN_LIFETIME
            /\ lastResp'.auth[1].access_expires_at = Some(now + ACCESS_TOKEN_LIFETIME)
            /\ RowOf(id) # {}
            /\ \A r \in installations :
                 IF r.install_id = id
                   THEN \E r2 \in installations' :
                          /\ r2 = [r EXCEPT !.access_token = new,
                                            !.access_expires_at = Some(now + ACCESS_TOKEN_LIFETIME)]
                          /\ r2.refresh_token = r.refresh_token
                          /\ r2.refresh_expires_at = r.refresh_expires_at
                          /\ r2.claimed_by = r.claimed_by
                          /\ r2.config_confirmed = r.config_confirmed
                   ELSE r \in installations'
            /\ Cardinality(installations') = Cardinality(installations)
            /\ RefreshOutcome(Some(tk), now') = "200"]_vars

(* a refresh made after the bootstrap's access token ran out has stored a
   younger access token next to the refresh token it was made with *)
C12_Witness ==
  /\ lastResp.op = "refresh" /\ lastResp.status = "200"
  /\ \E r \in RowOf(lastResp.key) :
       /\ r.refresh_token = lastResp.token
       /\ r.access_token = lastResp.auth[1].access_token
       /\ r.access_token[1].iat > r.refresh_token[1].iat
       /\ r.claimed_by # NULL
       /\ RefreshOutcome(r.refresh_token, now) = "200"

(* C13: a refresh request presenting a refresh token signed by the server, at
   or after the token's exp, is answered invalid_grant with no access token,
   and neither the table nor the set of signed tokens changes. *)
C13_ExpiredRefreshRejected ==
  [][\A tk \in issued :
       (RefreshArrives(tk) /\ tk.type = "refresh" /\ now >= tk.exp)
         => /\ lastResp'.status = "invalid_grant"
            /\ lastResp'.auth = NULL
            /\ installations' = installations
            /\ issued' = issued]_vars

(* the refresh token of a bootstrap was refused in the very second of its
   exp, 90 days after it was signed *)
C13_Witness ==
  /\ lastResp.op = "refresh" /\ lastResp.status = "invalid_grant"
  /\ lastResp.token # NULL
  /\ lastResp.token[1].type = "refresh" /\ lastResp.token[1].key = JWT_SECRET
  /\ lastResp.token[1].exp = lastResp.token[1].iat + REFRESH_TOKEN_LIFETIME
  /\ now = lastResp.token[1].exp
  /\ \E r \in RowOf(lastResp.token[1].installation_id) : r.refresh_token = lastResp.token

(* C14: a refresh request presenting a token that verifies (server's
   signature, not expired) but whose type is not refresh is answered
   invalid_grant with no access token and changes nothing that is stored. *)
C14_WrongClassRejected ==
  [][\A tk \in issued :
       (RefreshArrives(tk) /\ verifyToken(tk, now) # NULL /\ tk.type # "refresh")
         => /\ lastResp'.status = "invalid_grant"
            /\ lastResp'.auth = NULL
            /\ installations' = installations
            /\ issued' = issued]_vars

(* the stored, unexpired access token of an installation was presented as
   refresh token and refused *)
C14_Witness ==
  /\ lastResp.op = "refresh" /\ lastResp.status = "invalid_grant"
  /\ lastResp.token # NULL
  /\ lastResp.token[1].type = "access"
  /\ verifyToken(lastResp.token[1], now) # NULL
  /\ \E r \in RowOf(lastResp.token[1].installation_id) : r.access_token = lastResp.token

(* C15: a refresh request succeeds only when the token presented is the
   refresh token stored on the record of its installation. *)
C15_OnlyStoredRefreshAccepted ==
  [][\A tk \in issued :
       (RefreshArrives(tk) /\ lastResp'.status = "200")
         => \E r \in RowOf(tk.installation_id) : r.refresh_token = Some(tk)]_vars

(* C16: a health request gets as far as storing its report, and is answered
   204, only when its bearer token is of type access (and valid for the path
   id). *)
C16_HealthNeedsAccessToken ==
  /\ \A p \in pendingHealth :
       p.stage = "update"
         => /\ p.header[2].type = "access"
            /\ p.header[2].installation_id = p.id
  /\ (lastResp.op = "health" /\ lastResp.status = "204")
       => /\ lastResp.header[2].type = "access"
          /\ lastResp.header[2].installation_id = lastResp.key

(* C18: a bearer-protected operation answers with the code TOKEN_EXPIRED only
   a token that the server signed and that has run out; a token it cannot
   verify for another reason gets another code. *)
C18_ExpiredCodeMeansExpired ==
  (lastResp.op \in {"health", "logs"} /\ lastResp.status = "TOKEN_EXPIRED")
    => /\ lastResp.header[2].key = JWT_SECRET
       /\ now >= lastResp.header[2].exp

(* The steps in which a health or a logs request for the path id with the
   Authorization header h is received *)
HealthArrives(id, h) ==
  /\ requests' = requests + 1
  /\ \/ lastResp'.op = "health" /\ lastResp'.key = id /\ lastResp'.header = h
     \/ \E p \in pendingHealth' \ pendingHealth : p.id = id /\ p.header = h

LogsArrives(id, h) ==
  /\ requests' = requests + 1
  /\ \/ lastResp'.op = "logs" /\ lastResp'.key = id /\ lastResp'.header = h
     \/ \E p \in pendingLogs' \ pendingLogs : p.id = id /\ p.header = h

(* The request is refused, its answer has neither credentials nor a customer
   block, and nothing stored changes and no query is sent *)
RefusedWithoutEffect(op, id) ==
  /\ lastResp'.op = op /\ lastResp'.key = id
  /\ lastResp'.status \in {"not_found", "not_claimed", "TOKEN_EXPIRED", "forbidden"}
  /\ lastResp'.auth = NULL
  /\ lastResp'.customer = NULL
  /\ installations' = installations
  /\ health_reports' = health_reports
  /\ logs' = logs
  /\ issued' = issued
  /\ pendingBootstrap' = pendingBootstrap
  /\ pendingHealth' = pendingHealth
  /\ pendingLogs' = pendingLogs

(* C17: a config, health or logs request for the path B whose bearer token
   was signed for another installation A is refused, is answered with none of
   B's data and leaves the installations, health_reports and logs tables as
   they were. *)
C17_InstallationIsolation ==
  [][\A B \in InstallIds, tk \in issued :
       tk.installation_id # B
         => /\ ConfigArrives(B, <<"Bearer", tk>>) => RefusedWithoutEffect("config", B)
            /\ HealthArrives(B, <<"Bearer", tk>>) => RefusedWithoutEffect("health", B)
            /\ LogsArrives(B, <<"Bearer", tk>>) => RefusedWithoutEffect("logs", B)]_vars

(* the stored, unexpired access token of one installation was refused on the
   config path of another installation, one that is claimed and has customer
   data to give *)
C17_Witness ==
  /\ lastResp.op = "config" /\ lastResp.status = "TOKEN_EXPIRED"
  /\ startsWithBearer(lastResp.header)
  /\ verifyToken(lastResp.header[2], now) # NULL
  /\ lastResp.header[2].installation_id # lastResp.key
  /\ \E a \in RowOf(lastResp.header[2].installation_id) :
       a.access_token = Some(lastResp.header[2])
  /\ \E b \in RowOf(lastResp.key) : b.claimed_at # NULL /\ CustomerBlock(b).name # ""

(* The step in which an exchangeToken call for the device code dc is handled *)
ExchangeArrives(dc) ==
  /\ requests' = requests + 1
  /\ lastResp'.op = "token"
  /\ lastResp'.key = dc

(* No device code has been given more than one token pair *)
C19_AtMostOnePair ==
  \A dc \in DeviceCodes : deviceHistory[dc].pairs <= 1

(* An exchangeToken call for a device code that has had its pair is answered
   invalid_grant, with no tokens *)
C19_SpentCodeIsInvalid ==
  \A dc \in DeviceCodes :
    (ExchangeArrives(dc) /\ deviceHistory[dc].pairs >= 1)
      => /\ lastResp'.status = "invalid_grant"
         /\ lastResp'.auth = NULL
         /\ deviceHistory' = deviceHistory
         /\ device_codes' = device_codes

(* C19: over any sequence of requestCode, authorize and exchangeToken calls,
   exchangeToken returns a token pair for a device code at most once, and
   every exchangeToken call for that code after the successful one is
   answered invalid_grant. *)
C19_SingleExchange ==
  []C19_AtMostOnePair /\ [][C19_SpentCodeIsInvalid]_vars

(* the device code that was exchanged for U's pair has been presented again
   and refused *)
C19_Witness ==
  /\ lastResp.op = "token" /\ lastResp.status = "invalid_grant"
  /\ deviceHistory[lastResp.key].pairs = 1
  /\ deviceHistory[lastResp.key].authorized_by # NULL
  /\ findDeviceCode(lastResp.key) = {}

(* A record that an exchangeToken call found expired is gone for good *)
C20_PurgedStaysPurged ==
  \A dc \in DeviceCodes :
    deviceHistory[dc].purged => findDeviceCode(dc) = {} /\ deviceHistory[dc].pairs = 0

(* An exchangeToken call after the expiry timestamp of the record of its
   device code is answered expired_token with no tokens and deletes the
   record, so that an authorize call with its user code finds no record *)
C20_ExpiredExchange ==
  \A dc \in DeviceCodes : \A r \in findDeviceCode(dc) :
    (ExchangeArrives(dc) /\ now > r.expires_at)
      => /\ lastResp'.status = "expired_token"
         /\ lastResp'.auth = NULL
         /\ deviceHistory'[dc].pairs = deviceHistory[dc].pairs
         /\ {x \in device_codes' : x.device_code = dc} = {}
         /\ AuthorizeOutcome({x \in device_codes' : x.user_code = r.user_code}, now')
              = "invalid code"

(* C20: exchangeToken called after the expiry timestamp of a device
   authorization request answers expired_token, whether the request was
   authorized or not, returns no tokens and purges the record, whose user
   code can then no longer be authorized. *)
C20_ExpiredIsPurged ==
  []C20_PurgedStaysPurged /\ [][C20_ExpiredExchange]_vars

(* a request that a user had authorized in time was polled one second after
   its expiry: expired_token, and the record is gone *)
C20_Witness ==
  /\ lastResp.op = "token" /\ lastResp.status = "expired_token"
  /\ now = DEVICE_CODE_LIFETIME + 1
  /\ deviceHistory[lastResp.key].authorized_by # NULL
  /\ deviceHistory[lastResp.key].purged
  /\ deviceHistory[lastResp.key].pairs = 0
  /\ findDeviceCode(lastResp.key) = {}

(* The step in which an authorize call of user u with the user code uc is
   handled *)
AuthorizeArrives(uc, u) ==
  /\ requests' = requests + 1
  /\ lastResp'.op = "authorize"
  /\ lastResp'.key = uc
  /\ lastResp'.user = u

(* C21: an authorize call with a user code whose record is already authorized
   is answered "already authorized", not with an error, and leaves the table
   as it is: the record stays bound to the user who authorized it first,
   whoever makes the second call. *)
C21_AuthorizeIdempotent ==
  [][\A uc \in UserCodes, u \in Users : \A r \in findDeviceCodeByUserCode(uc) :
       (AuthorizeArrives(uc, u) /\ r.authorized)
         => /\ lastResp'.status \in {"already authorized", "expired code"}
            /\ ~DeviceCodeExpired(r, now) => lastResp'.status = "already authorized"
            /\ device_codes' = device_codes
            /\ deviceHistory' = deviceHistory
            /\ r.user_id = deviceHistory[r.device_code].authorized_by]_vars

(* a second user has called authorize with the user code of a record that
   stays bound to the first *)
C21_Witness ==
  /\ lastResp.op = "authorize" /\ lastResp.status = "already authorized"
  /\ \E r \in findDeviceCodeByUserCode(lastResp.key) :
       /\ r.authorized
       /\ r.user_id # NULL /\ r.user_id # Some(lastResp.user)
       /\ r.user_id = deviceHistory[r.device_code].authorized_by

(* C22: when the UPDATE of a bootstrap fails, the config request is answered
   internal_error with no auth block and the table is as it was; whenever a
   config answer does carry an auth block, its pair is the pair stored on the
   record. *)
C22_BootstrapFailsAtomically ==
  [][\A p \in pendingBootstrap :
       p \notin pendingBootstrap'
         => /\ lastResp'.op = "config" /\ lastResp'.key = p.id
            /\ lastResp'.status \in {"bootstrap", "internal_error"}
            /\ lastResp'.status = "internal_error"
                 => /\ lastResp'.auth = NULL
                    /\ installations' = installations
                    /\ issued' = issued
            /\ lastResp'.auth # NULL
                 => \E r \in installations' :
                      /\ r.install_id = p.id
                      /\ r.access_token = lastResp'.auth[1].access_token
                      /\ r.refresh_token = lastResp'.auth[1].refresh_token]_vars

(* the first bootstrap of a claimed installation has failed: the caller has
   no pair and the record has none *)
C22_Witness ==
  /\ lastResp.op = "config" /\ lastResp.status = "internal_error"
  /\ lastResp.auth = NULL
  /\ \E r \in RowOf(lastResp.key) :
       r.claimed_at # NULL /\ r.access_token = NULL /\ r.refresh_token = NULL

(* C23: the INSERT of a register request for an installId that has no record
   ends in a 201 with a claim code that no other installation holds, also
   when the code generated first is the code of another installation. *)
C23_CollisionIsRetried ==
  [][\A p \in pendingRegister :
       (p \notin pendingRegister' /\ RowOf(p.install_id) = {})
         => /\ lastResp'.op = "register" /\ lastResp'.status = "201"
            /\ \E r \in installations' :
                 /\ r.install_id = p.install_id
                 /\ r.claim_code = lastResp'.claim_code
                 /\ \A o \in installations' :
                      o.install_id # p.install_id => o.claim_code # r.claim_code]_vars

(* C24: under the local strategy a request behind requireAuth gets a user
   context exactly when its cookie is the token of a session row that
   expires after the current time and whose user exists, and the context is
   that user; with any other cookie value it gets no context, the access
   cookie is cleared, it is redirected to /login, no cookie is set and the
   sessions table is left as it is. *)
C24_LocalSessionGate ==
  [][\A t \in SessionTokens \cup {UnknownToken} :
       (isLocalDev /\ RequireAuthArrives(Some(t), NULL))
         => LET live == {s \in sessions : /\ s.token = t
                                          /\ s.expires_at > now
                                          /\ findUserById(users, s.user_id) # {}}
            IN /\ sessions' = sessions
               /\ lastResp'.cookies = NULL
               /\ IF live # {}
                    THEN /\ lastResp'.effects = <<"next">>
                         /\ \E s \in live :
                              lastResp'.ctx \in {Some(u) : u \in findUserById(users, s.user_id)}
                    ELSE /\ lastResp'.ctx = NULL
                         /\ lastResp'.effects = <<"clearCookie sb_access_token",
                                                  "redirect /login">>]_vars

(* a request has come with the token of a session row at the very instant
   the row expires, and has been sent to /login *)
C24_Witness ==
  /\ isLocalDev
  /\ lastResp.op = "requireAuth" /\ lastResp.ctx = NULL
  /\ \E s \in sessions : Some(s.token) = lastResp.token /\ s.expires_at = now
  /\ lastResp.effects = <<"clearCookie sb_access_token", "redirect /login">>

Occurrences(seq, x) == Cardinality({i \in DOMAIN seq : seq[i] = x})

(* C25: under the provider strategy, a request whose access cookie the
   provider rejects proceeds with the user of its refresh cookie's session
   and two newly set cookies holding a new provider session when the refresh
   succeeds, and otherwise has both cookies cleared and is redirected to
   /login. Under either strategy every request behind requireAuth gets
   exactly one of next() and the redirect to /login, once, and has a user
   context exactly when it got next(). *)
C25_RefreshOrRedirect ==
  [][\A at \in AccessCookies, rt \in RefreshCookies :
       RequireAuthArrives(at, rt)
         => /\ Occurrences(lastResp'.effects, "next")
                 + Occurrences(lastResp'.effects, "redirect /login") = 1
            /\ lastResp'.ctx # NULL <=> Occurrences(lastResp'.effects, "next") = 1
            /\ (~isLocalDev /\ at # NULL /\ getUser(idp, at[1]) = {})
                 => IF refreshSession(idp, rt) # {}
                      THEN /\ lastResp'.effects = <<"cookie sb_access_token",
                                                    "cookie sb_refresh_token", "next">>
                           /\ \E r \in refreshSession(idp, rt) :
                                lastResp'.ctx = Some(r.user)
                           /\ lastResp'.cookies # NULL
                           /\ IdpSession(lastResp'.cookies[1],
                                         lastResp'.ctx[1]) \in idp' \ idp
                      ELSE /\ lastResp'.effects = <<"clearCookie sb_access_token",
                                                    "clearCookie sb_refresh_token",
                                                    "redirect /login">>
                           /\ lastResp'.ctx = NULL
                           /\ lastResp'.cookies = NULL
                           /\ idp' = idp]_vars

(* the provider has let an access token lapse, and the request carrying it
   and its refresh token has gone on to the handler with a new pair *)
C25_Witness ==
  /\ ~isLocalDev
  /\ lastResp.op = "requireAuth" /\ lastResp.cookies # NULL
  /\ lastResp.effects = <<"cookie sb_access_token", "cookie sb_refresh_token", "next">>
  /\ \E r \in idp : /\ Some(r.access_token) = lastResp.token
                     /\ Some(r.refresh_token) = lastResp.refresh
                     /\ ~r.access_live /\ ~r.refresh_live
                     /\ lastResp.ctx = Some(r.user)

(* C26: no step removes a user or changes a user's id: every row of users
   is still there after the step with the same id and the same email, so an
   id that designates a user designates that user for good. *)
C26_UserIdsAreStable ==
  [][\A u \in users :
       \E u2 \in users' : u2.id = u.id /\ u2.email = u.email]_vars

(* C27: a claim never writes a missing or empty customer name or email:
   every installation record that has been claimed carries a customer name
   and a customer email that are present and not empty. *)
C27_ClaimWritesNoMissingField ==
  \A r \in installations :
    r.claimed_at # NULL
      => /\ r.customer_name \notin {NULL, Some("")}
         /\ r.customer_email \notin {NULL, Some("")}

Lifetime(tk) ==
  IF tk.type = "access" THEN ACCESS_TOKEN_LIFETIME ELSE REFRESH_TOKEN_LIFETIME

(* C28: a token signed at t runs out at t + 7 days if it is an access token
   and at t + 90 days if it is a refresh token: a health request with the
   access token of its installation passes the bearer check exactly while
   the clock is before that instant, a refresh request with the refresh
   token succeeds exactly while the clock is before it, and the expiry
   stored on the record and sent in the answer next to a token is that
   instant. *)
C28_TokenLifetimes ==
  /\ [](/\ \A tk \in issued : tk.exp = tk.iat + Lifetime(tk)
        /\ \A r \in installations :
             /\ r.access_token # NULL
                  => r.access_expires_at
                       = Some(r.access_token[1].iat + ACCESS_TOKEN_LIFETIME)
             /\ r.refresh_token # NULL
                  => r.refresh_expires_at
                       = Some(r.refresh_token[1].iat + REFRESH_TOKEN_LIFETIME)
        /\ (lastResp.auth # NULL /\ lastResp.auth[1].access_token # NULL)
             => lastResp.auth[1].access_expires_at
                  = Some(lastResp.auth[1].access_token[1].iat + ACCESS_TOKEN_LIFETIME))
  /\ [][\A tk \in issued :
         /\ (tk.type = "access" /\ HealthArrives(tk.installation_id, <<"Bearer", tk>>))
              => (lastResp'.status = "TOKEN_EXPIRED"
                    <=> now >= tk.iat + ACCESS_TOKEN_LIFETIME)
         /\ (tk.type = "refresh" /\ RefreshArrives(tk))
              => /\ lastResp'.status = "200"
                      <=> now < tk.iat + REFRESH_TOKEN_LIFETIME
                 /\ lastResp'.status = "invalid_grant"
                      <=> now >= tk.iat + REFRESH_TOKEN_LIFETIME]_vars

(* the access token a refresh signed at 1 has been taken at 7 days and is
   refused one second later, at 7 days and 1 second *)
C28_Witness ==
  /\ lastResp.op = "health" /\ lastResp.status = "TOKEN_EXPIRED"
  /\ lastResp.header[2] \in issued
  /\ lastResp.header[2].type = "access"
  /\ lastResp.header[2].iat = 1
  /\ now = ACCESS_TOKEN_LIFETIME + 1
  /\ \E r \in RowOf(lastResp.key) :
       /\ r.access_token = Some(lastResp.header[2])
       /\ r.access_expires_at = Some(now)
       /\ r.last_health_at = Some(ACCESS_TOKEN_LIFETIME)

Lookalikes == {"0", "O", "1", "I"}

Range(seq) == {seq[i] : i \in DOMAIN seq}

(* C29: a code returned by generateClaimCode has exactly 6 characters, a
   code returned by generateUserCode has 4 characters, a hyphen and 4
   characters; every character other than the hyphen is one of the
   generator's alphabet and none is 0, O, 1 or I. *)
C29_CodesAreWellFormed ==
  /\ lastResp.op = "generateClaimCode"
       => /\ Len(lastResp.effects) = 6
          /\ Range(lastResp.effects)
                \subseteq {"A", "B", "C", "D", "E", "F", "G", "H", "J", "K", "L",
                           "M", "N", "P", "Q", "R", "S", "T", "U", "V", "W", "X",
                           "Y", "Z", "2", "3", "4", "5", "6", "7", "8", "9"}
          /\ Range(lastResp.effects) \cap Lookalikes = {}
  /\ lastResp.op = "generateUserCode"
       => /\ Len(lastResp.effects) = 9
          /\ lastResp.effects[5] = "-"
          /\ \A i \in (1..9) \ {5} :
               /\ lastResp.effects[i]
                    \in {"A", "B", "C", "D", "E", "F", "G", "H", "J", "K", "L",
                         "M", "N", "P", "Q", "R", "S", "T", "U", "V", "W", "X",
                         "Y", "Z"}
               /\ lastResp.effects[i] \notin Lookalikes

(* generateClaimCode has drawn the last character of its alphabet, and the
   first, in one code *)
C29_Witness ==
  /\ lastResp.op = "generateClaimCode"
  /\ Len(lastResp.effects) = 6
  /\ lastResp.effects[1] = "9" /\ lastResp.effects[2] = "A"

(* C30: a health request answered 204 has one health record of its own, the
   one its INSERT added, and has set last_health_at of its installation to
   the time of its UPDATE; the number of health records of an installation
   grows in no other way than by one for each request passing its INSERT. A
   health request with no bearer token, with a token that does not verify,
   or with a token of another installation is refused at once: it adds no
   health record, changes no record and sends no query. *)
C30_HealthRecordPerSuccess ==
  [][/\ \A id \in InstallIds, h \in AuthHeaders :
          (/\ HealthArrives(id, h)
           /\ \/ ~startsWithBearer(h)
              \/ verifyToken(h[2], now) = NULL
              \/ verifyToken(h[2], now)[1].installation_id # id)
            => /\ lastResp'.op = "health"
               /\ lastResp'.status \in {"unauthorized", "TOKEN_EXPIRED", "forbidden"}
               /\ health_reports' = health_reports
               /\ installations' = installations
               /\ pendingHealth' = pendingHealth
     /\ (lastResp'.op = "health" /\ lastResp'.status = "204")
          => /\ \E p \in pendingHealth :
                  /\ p.stage = "update" /\ p.id = lastResp'.key
                  /\ p.header = lastResp'.header
                  /\ pendingHealth' = pendingHealth \ {p}
             /\ health_reports' = health_reports
             /\ health_reports[lastResp'.key] >= 1
             /\ \A r \in installations' :
                  r.install_id = lastResp'.key => r.last_health_at = Some(now)
     /\ \A id \in InstallIds :
          health_reports'[id] = health_reports[id]
            + Cardinality({p \in pendingHealth \ pendingHealth' :
                             /\ p.id = id /\ p.stage = "insert"
                             /\ [p EXCEPT !.stage = "update"] \in pendingHealth'})
     /\ \A p \in pendingHealth' \ pendingHealth :
          p.stage = "update" => [p EXCEPT !.stage = "insert"] \in pendingHealth
     /\ \A p \in pendingHealth \ pendingHealth' :
          p.stage = "insert" => [p EXCEPT !.stage = "update"] \in pendingHealth'
    ]_vars

(* two health requests of one installation have been answered 204 one after
   the other: two health records, and last_health_at at the time of the
   second *)
C30_Witness ==
  /\ lastResp.op = "health" /\ lastResp.status = "204"
  /\ health_reports[lastResp.key] = 2
  /\ pendingHealth = {}
  /\ now > 0
  /\ \E r \in RowOf(lastResp.key) : r.last_health_at = Some(now)

(* C31: a refresh, a health report and a confirm on one installation each
   write their own fields of the record and no other: the step that answers
   a refresh stores its new access token and expiry, the step that answers a
   health report stores the time as last_health_at, the step that answers a
   confirm sets config_confirmed, and every field a step is not the writer
   of is after the step what it was before, so no interleaving of the three
   undoes what another has written. *)
C31_EachWritesItsOwnFields ==
  [][\A r \in installations :
       \E r2 \in installations' :
         LET id == r.install_id
             refreshed == /\ lastResp'.op = "refresh" /\ lastResp'.status = "200"
                          /\ lastResp'.key = id
             reported  == /\ lastResp'.op = "health" /\ lastResp'.status = "204"
                          /\ lastResp'.key = id
             confirmed == lastResp'.op = "confirm" /\ lastResp'.key = id
         IN /\ r2.install_id = id
            /\ IF refreshed
                 THEN /\ r2.access_token = lastResp'.auth[1].access_token
                      /\ r2.access_token[1].iat = now
                      /\ r2.access_expires_at = Some(now + ACCESS_TOKEN_LIFETIME)
                 ELSE /\ r2.access_token = r.access_token
                      /\ r2.access_expires_at = r.access_expires_at
            /\ IF reported
                 THEN r2.last_health_at = Some(now)
                 ELSE r2.last_health_at = r.last_health_at
            /\ IF confirmed
                 THEN r2.config_confirmed
                 ELSE r2.config_confirmed = r.config_confirmed
            /\ r2 = [r EXCEPT !.access_token = r2.access_token,
                              !.access_expires_at = r2.access_expires_at,
                              !.last_health_at = r2.last_health_at,
                              !.config_confirmed = r2.config_confirmed]]_vars

(* a health report sent with the bootstrap's access token has been answered
   after a refresh stored a younger access token and a confirm was made:
   the record holds all three writes *)
C31_Witness ==
  /\ lastResp.op = "health" /\ lastResp.status = "204"
  /\ \E r \in RowOf(lastResp.key) :
       /\ r.config_confirmed
       /\ r.last_health_at = Some(now)
       /\ r.access_token # NULL
       /\ r.access_token[1].iat > lastResp.header[2].iat
       /\ r.access_token[1].iat = now
       /\ r.refresh_token # NULL

(* C32: when register calls for one new installId run side by side, the
   INSERT of the first creates the record and answers 201 with its code; an
   INSERT that arrives when the record exists is refused, answers 500 with
   no claim code and changes nothing. There is never more than one record
   for an installId, and the codes returned for it with 200 or 201 are one
   code. *)
C32_OneRegisterWinsTheRace ==
  /\ [](\A id \in InstallIds :
          /\ Cardinality(RowOf(id)) <= 1
          /\ \A c1, c2 \in registerReturned[id] : c1 = c2)
  /\ [][\A p \in pendingRegister :
         p \notin pendingRegister'
           => /\ lastResp'.op = "register" /\ lastResp'.key = p.install_id
              /\ IF RowOf(p.install_id) # {}
                   THEN /\ lastResp'.status = "500"
                        /\ lastResp'.claim_code = ""
                        /\ installations' = installations
                        /\ registerReturned' = registerReturned
                   ELSE lastResp'.status = "201"
                          => /\ lastResp'.claim_code = p.claimCode
                             /\ registerReturned'[p.install_id] = {p.claimCode}
                             /\ installations' = installations
                                  \cup {NewRow(p.install_id, p.claimCode)}]_vars

(* two register calls for dev-1 both found no record and drew different
   codes; the second INSERT has been refused and dev-1 has the one record of
   the first *)
C32_Witness ==
  /\ lastResp.op = "register" /\ lastResp.status = "500"
  /\ installations = RowOf(lastResp.key)
  /\ Cardinality(installations) = 1
  /\ \E r \in installations : registerReturned[lastResp.key] = {r.claim_code}
  /\ pendingRegister = {}

(* C33: once config_confirmed is true on an installation, the credentials
   stored on its record change only in a step that answers a refresh for
   it, and no config request is answered with an auth block for it. *)
C33_NoBootstrapAfterConfirm ==
  [][\A r \in installations :
       r.config_confirmed
         => /\ \E r2 \in installations' :
                 /\ r2.install_id = r.install_id
                 /\ r2.refresh_token = r.refresh_token
                 /\ r2.refresh_expires_at = r.refresh_expires_at
                 /\ \/ r2.access_token = r.access_token
                    \/ /\ lastResp'.op = "refresh" /\ lastResp'.status = "200"
                       /\ lastResp'.key = r.install_id
            /\ ~(/\ lastResp'.op = "config" /\ lastResp'.key = r.install_id
                 /\ lastResp'.auth # NULL)]_vars

(* C34: no two installation records have the same install_id and no two the
   same claim_code; no step removes a record or changes its install_id or
   its claim_code; a register request for an installId that has a record
   leaves the table as it is. *)
C34_KeysAreUniqueAndFixed ==
  /\ [](\A r1, r2 \in installations :
          (r1.install_id = r2.install_id \/ r1.claim_code = r2.claim_code) => r1 = r2)
  /\ [][/\ \A r \in installations :
            \E r2 \in installations' :
              r2.install_id = r.install_id /\ r2.claim_code = r.claim_code
        /\ \A id \in InstallIds :
            (/\ requests' = requests + 1
             /\ lastResp'.op = "register" /\ lastResp'.key = id
             /\ RowOf(id) # {})
              => /\ installations' = installations
                 /\ lastResp'.status = "200"
                 /\ lastResp'.claim_code \in {r.claim_code : r \in RowOf(id)}]_vars

(* two installations are registered, one of them has been claimed, and its
   device has registered again and got the code it had *)
C34_Witness ==
  /\ lastResp.op = "register" /\ lastResp.status = "200"
  /\ Cardinality(installations) = 2
  /\ \E r \in RowOf(lastResp.key) :
       /\ r.claimed_at # NULL
       /\ r.claim_code = lastResp.claim_code

(* C35: under the local strategy, a request behind requireAuth that carries
   a session token for which a logout has been answered gets no user
   context. *)
C35_LoggedOutStaysOut ==
  [][\A t \in loggedOut :
       (isLocalDev /\ RequireAuthArrives(Some(t), NULL)) => lastResp'.ctx = NULL]_vars

====
